---- MODULE Spec2Model ----
(***************************************************************************)
(* Model of the INFOBI query gateway back end: the two pool registries     *)
(* (app/core/engine_pool.py, app/core/connection_pool.py), the connection  *)
(* API that drives them (app/api/connections.py) and the drill-down query  *)
(* synthesis (app/services/query_engine.py, app/api/pivot.py).             *)
(***************************************************************************)
EXTENDS Integers, Sequences, FiniteSets, TLC

(***************************************************************************)
(* Bounds of the model.                                                    *)
(***************************************************************************)
NThreads == 2
MaxCalls == 2

(***************************************************************************)
(* Program constants.                                                      *)
(***************************************************************************)
POOL_SIZE == 5
WARM_TARGET == 3

Threads == 1..NThreads

(***************************************************************************)
(* Source Connection Descriptors: db_type plus the config dict.            *)
(***************************************************************************)
SupportedTypes == {"mssql", "postgresql", "mysql"}
DbTypes == SupportedTypes \cup {"oracle"}
Hosts == {"db1", "db2"}
Passwords == {"old", "new"}

AllDescriptors ==
    [db_type : DbTypes, host : Hosts, port : {"1433"}, database : {"sales"},
     username : {"bi"}, password : Passwords]

\* the descriptors the modelled clients send: every backend type with both
\* passwords on the first host, and the mssql source on the second host too
Descriptors ==
    {d \in AllDescriptors : d.host = "db1" \/ d.db_type = "mssql"}

NoArg ==
    [db_type |-> "", host |-> "", port |-> "", database |-> "",
     username |-> "", password |-> ""]

\* hashlib.sha256(password.encode()).hexdigest()[:16] on the modelled passwords
PwdHash(p) ==
    CASE p = "old" -> "cba06b5736faf67e"
      [] p = "new" -> "11507a0e2f5e69d5"
      [] OTHER -> "e3b0c44298fc1c14"

\* engine_pool.get_engine: the registry key
EngineKeyNoHash(d) ==
    d.db_type \o "://" \o d.username \o "@" \o d.host \o ":" \o d.port
        \o "/" \o d.database

EngineKey(d) ==
    d.db_type \o "://" \o d.username \o "@" \o d.host \o ":" \o d.port
        \o "/" \o d.database \o "#" \o PwdHash(d.password)

\* connection_pool._get_pool_key
PoolKey(d) ==
    d.db_type \o "://" \o d.host \o ":" \o d.port \o "/" \o d.database
        \o "/" \o d.username

\* _build_sqlalchemy_url of both modules: the dialect+driver prefix of the URL,
\* or the ValueError of the final else branch
EngineUrlLax(db_type) ==
    CASE db_type = "mssql" -> "mssql+pyodbc"
      [] db_type = "mysql" -> "mysql+pymysql"
      [] OTHER -> "postgresql"

EngineUrl(db_type) ==
    CASE db_type = "mssql" -> "mssql+pyodbc"
      [] db_type = "postgresql" -> "postgresql"
      [] db_type = "mysql" -> "mysql+pymysql"
      [] OTHER -> "ValueError"

PoolUrl(db_type) ==
    CASE db_type = "mssql" -> "mssql+pyodbc"
      [] db_type = "postgresql" -> "postgresql+psycopg2"
      [] db_type = "mysql" -> "mysql+pymysql"
      [] OTHER -> "ValueError"

VARIABLES
    made,        \* every Engine object created so far, in creation order
    engines,     \* engine_pool._engines: key -> index into made
    pools,       \* connection_pool._pools: key -> index into made
    pools_lock,  \* connection_pool._pools_lock: 0 or the holding thread
    stored,      \* the Connection row the connections API edits
    warmTasks,   \* scheduled warm_up_single_connection tasks
    traffic,     \* statements executed: caller descriptor and engine used
    pc, op, arg, loc, ret,   \* per-thread position, call, argument, local, result
    ncalls,      \* calls started so far
    probeFails,  \* liveness probes of get_or_create_pool that failed
    stale,       \* per thread: the engine its get_or_create_pool found stale
    req,         \* the drill-down request being served (NoReq when none)
    res,         \* its outcome and the query it issued (NoRes when none)
    cache,       \* the result cache: (report id, config hash) -> payload
    hs,          \* per pivot handler: its position, request and locals
    dbver,       \* the version of the data behind the reports' base queries
    warmed,      \* query_engine._warmed_connections: the keys marked as warmed
    warmOk,      \* descriptors whose warm_up_single_connection returned True
    reported,    \* per thread: the response its awaiting handler has sent
    loop,        \* the coroutine that holds the event loop in a blocking call
    tasks        \* per coroutine of the query engine: its position and call

\* the state of the pool registries and of the threads that use them
poolVars == <<made, engines, pools, pools_lock, stored, warmTasks, traffic,
              pc, op, arg, loc, ret, ncalls, probeFails, stale>>

\* the state of the request handlers of the query engine
queryVars == <<req, res>>

\* the state of the pivot endpoints and of the result cache behind them
pivotVars == <<cache, hs, dbver>>

\* the session state of the engine and of the coroutines that call it
runVars == <<warmed, warmOk, reported, loop, tasks>>

vars == <<poolVars, queryVars, pivotVars, runVars>>

NoReq == [endpoint |-> "none"]
NoQuery == [shape |-> "none"]
NoRes == [status |-> "none", query |-> NoQuery]

NoRet == [kind |-> "none", eng |-> 0]
R(k, e) == [kind |-> k, eng |-> e]

NewEngine(d, module, url) ==
    [cfg |-> d, via |-> module, url |-> url, disposed |-> FALSE]

InitialConnection ==
    [db_type |-> "mssql", host |-> "db1", port |-> "1433", database |-> "sales",
     username |-> "bi", password |-> "old"]

(***************************************************************************)
(* The pivot endpoints (api/pivot.py) and the result cache behind them.     *)
(***************************************************************************)
NHandlers == 2
MaxVer == 1

\* the requests being handled at the same time
Handlers == 1..NHandlers

\* an empty cache answer / no payload yet
NoBytes == [kind |-> "none"]

\* a handler between two requests
IdleHandler ==
    [pc |-> "idle", req |-> NoReq, config_hash |-> <<>>, cache_hit |-> FALSE,
     arrow_bytes |-> NoBytes, row_count |-> 0, status |-> "none", reads |-> 0,
     conns |-> 0, queries |-> 0, writes |-> 0]

(***************************************************************************)
(* The coroutines of the query engine and its worker pool.                  *)
(***************************************************************************)
NCoroutines == 5

\* _executor = ThreadPoolExecutor(max_workers=4)
MAX_WORKERS == 4

Coroutines == 1..NCoroutines

\* a coroutine that is not inside an engine call
IdleTask == [pc |-> "idle", fn |-> "none"]

Init ==
    /\ made = <<>>
    /\ engines = <<>>
    /\ pools = <<>>
    /\ pools_lock = 0
    /\ stored = InitialConnection
    /\ warmTasks = {}
    /\ traffic = {}
    /\ pc = [t \in Threads |-> "idle"]
    /\ op = [t \in Threads |-> "none"]
    /\ arg = [t \in Threads |-> NoArg]
    /\ loc = [t \in Threads |-> 0]
    /\ ret = [t \in Threads |-> NoRet]
    /\ ncalls = 0
    /\ probeFails = 0
    /\ stale = [t \in Threads |-> 0]
    /\ req = NoReq
    /\ res = NoRes
    /\ cache = <<>>
    /\ hs = [h \in Handlers |-> IdleHandler]
    /\ dbver = 0
    /\ warmed = {}
    /\ warmOk = {}
    /\ reported = [t \in Threads |-> "none"]
    /\ loop = 0
    /\ tasks = [c \in Coroutines |-> IdleTask]

\* f with the pair k -> v added or replaced
Put(f, k, v) == [x \in DOMAIN f \cup {k} |-> IF x = k THEN v ELSE f[x]]
\* f without the key k
Del(f, k) == [x \in DOMAIN f \ {k} |-> f[x]]

(***************************************************************************)
(* engine_pool.get_engine and its callers running on worker threads.       *)
(***************************************************************************)
EngineOps == {"_test_connection_sync", "_execute_arrow_with_params_sync"}

StartEngineCall(t) ==
    /\ pc[t] = "idle"
    /\ ncalls < MaxCalls
    /\ \E o \in EngineOps, d \in Descriptors :
          /\ op' = [op EXCEPT ![t] = o]
          /\ arg' = [arg EXCEPT ![t] = d]
    /\ pc' = [pc EXCEPT ![t] = "ge_check"]
    /\ ncalls' = ncalls + 1
    /\ UNCHANGED <<made, engines, pools, pools_lock, stored, warmTasks, traffic,
                   loc, ret, probeFails, stale>>
    /\ UNCHANGED <<queryVars, pivotVars, runVars>>

\* if key in _engines: return _engines[key]
GE_Check(t) ==
    /\ pc[t] = "ge_check"
    /\ IF EngineKey(arg[t]) \in DOMAIN engines
          THEN /\ loc' = [loc EXCEPT ![t] = engines[EngineKey(arg[t])]]
               /\ pc' = [pc EXCEPT ![t] = "use"]
          ELSE /\ pc' = [pc EXCEPT ![t] = "ge_create"]
               /\ loc' = loc
    /\ UNCHANGED <<made, engines, pools, pools_lock, stored, warmTasks, traffic,
                   op, arg, ret, ncalls, probeFails, stale>>
    /\ UNCHANGED <<queryVars, pivotVars, runVars>>

\* url = _build_sqlalchemy_url(...); engine = create_engine(...);
\* _engines[key] = engine; return engine
GE_Create(t) ==
    /\ pc[t] = "ge_create"
    /\ IF EngineUrl(arg[t].db_type) = "ValueError"
          THEN /\ ret' = [ret EXCEPT ![t] = R("ValueError", 0)]
               /\ pc' = [pc EXCEPT ![t] = "done"]
               /\ UNCHANGED <<made, engines, loc>>
          ELSE /\ made' = Append(made,
                     NewEngine(arg[t], "engine_pool", EngineUrl(arg[t].db_type)))
               /\ engines' = Put(engines, EngineKey(arg[t]), Len(made) + 1)
               /\ loc' = [loc EXCEPT ![t] = Len(made) + 1]
               /\ pc' = [pc EXCEPT ![t] = "use"]
               /\ ret' = ret
    /\ UNCHANGED <<pools, pools_lock, stored, warmTasks, traffic,
                   op, arg, ncalls, probeFails, stale>>
    /\ UNCHANGED <<queryVars, pivotVars, runVars>>

\* with engine.connect() as conn: conn.execute(...)
Use(t) ==
    /\ pc[t] = "use"
    /\ \E ok \in BOOLEAN :
          IF ok
             THEN /\ traffic' = traffic \cup {[d |-> arg[t], eng |-> loc[t]]}
                  /\ ret' = [ret EXCEPT ![t] = R("ok", loc[t])]
             ELSE /\ traffic' = traffic
                  /\ ret' = [ret EXCEPT ![t] = R("OperationalError", loc[t])]
    /\ pc' = [pc EXCEPT ![t] = "done"]
    /\ UNCHANGED <<made, engines, pools, pools_lock, stored, warmTasks,
                   op, arg, loc, ncalls, probeFails, stale>>
    /\ UNCHANGED <<queryVars, pivotVars, runVars>>

\* the call returns to its caller; the thread takes the next unit of work
Finish(t) ==
    /\ pc[t] = "done"
    /\ pc' = [pc EXCEPT ![t] = "idle"]
    /\ op' = [op EXCEPT ![t] = "none"]
    /\ arg' = [arg EXCEPT ![t] = NoArg]
    /\ loc' = [loc EXCEPT ![t] = 0]
    /\ ret' = [ret EXCEPT ![t] = NoRet]
    /\ stale' = [stale EXCEPT ![t] = 0]
    /\ UNCHANGED <<made, engines, pools, pools_lock, stored, warmTasks, traffic,
                   ncalls, probeFails>>
    /\ UNCHANGED <<queryVars, pivotVars, runVars>>

(***************************************************************************)
(* connections.update_connection and the warm-up task it schedules.        *)
(***************************************************************************)
UpdateConnection ==
    /\ ncalls < MaxCalls
    /\ \E h \in Hosts, p \in Passwords :
          /\ stored' = [stored EXCEPT !.host = h, !.password = p]
          /\ warmTasks' = warmTasks \cup {stored'}
    /\ ncalls' = ncalls + 1
    /\ UNCHANGED <<made, engines, pools, pools_lock, traffic,
                   pc, op, arg, loc, ret, probeFails, stale>>
    /\ UNCHANGED <<queryVars, pivotVars, runVars>>

\* warm_up_single_connection: builds the connection string and runs SELECT 1
\* through connectorx on an executor of its own; it returns True when the
\* statement succeeds, False when anything raises, and touches no registry.
WarmUpSingle ==
    /\ \E d \in warmTasks, ok \in BOOLEAN :
          /\ warmTasks' = warmTasks \ {d}
          /\ warmOk' = IF ok THEN warmOk \cup {d} ELSE warmOk
    /\ UNCHANGED <<made, engines, pools, pools_lock, stored, traffic,
                   pc, op, arg, loc, ret, ncalls, probeFails, stale>>
    /\ UNCHANGED <<queryVars, pivotVars, warmed, reported, loop, tasks>>

(***************************************************************************)
(* connection_pool: get_or_create_pool, warm_pool, dispose_pool,           *)
(* dispose_all_pools, get_pool_status.  Every access to _pools happens     *)
(* inside "with _pools_lock".                                              *)
(***************************************************************************)
PoolOps == {"get_or_create_pool", "warm_pool", "dispose_pool",
            "dispose_all_pools", "get_pool_status"}

Acquiring == {"get_or_create_pool", "warm_pool"}

FirstPc(o) ==
    CASE o \in Acquiring -> "gp_enter"
      [] o = "dispose_pool" -> "dp"
      [] o = "dispose_all_pools" -> "da"
      [] OTHER -> "st"

StartPoolCall(t) ==
    /\ pc[t] = "idle"
    /\ ncalls < MaxCalls
    /\ \E o \in PoolOps, d \in Descriptors :
          /\ op' = [op EXCEPT ![t] = o]
          /\ arg' = [arg EXCEPT ![t] =
                        IF o \in {"dispose_all_pools", "get_pool_status"}
                           THEN NoArg ELSE d]
          /\ pc' = [pc EXCEPT ![t] = FirstPc(o)]
    /\ ncalls' = ncalls + 1
    /\ UNCHANGED <<made, engines, pools, pools_lock, stored, warmTasks, traffic,
                   loc, ret, probeFails, stale>>
    /\ UNCHANGED <<queryVars, pivotVars, runVars>>

\* where get_or_create_pool returns to: warm_pool goes on to open connections
AfterAcquire(t) == IF op[t] = "warm_pool" THEN "wp_warm" ELSE "done"

\* "with _pools_lock:" is entered by t only while no thread holds the lock
LockIgnored(t) == TRUE

LockFree(t) == pools_lock = 0

\* with _pools_lock: if pool_key in _pools: engine = _pools[pool_key]
GP_Enter(t) ==
    /\ pc[t] = "gp_enter"
    /\ LockFree(t)
    /\ pools_lock' = t
    /\ IF PoolKey(arg[t]) \in DOMAIN pools
          THEN /\ loc' = [loc EXCEPT ![t] = pools[PoolKey(arg[t])]]
               /\ pc' = [pc EXCEPT ![t] = "gp_probe"]
          ELSE /\ loc' = loc
               /\ pc' = [pc EXCEPT ![t] = "gp_create"]
    /\ UNCHANGED <<made, engines, pools, stored, warmTasks, traffic,
                   op, arg, ret, ncalls, probeFails, stale>>
    /\ UNCHANGED <<queryVars, pivotVars, runVars>>

\* try: with engine.connect() as conn: conn.execute(text("SELECT 1"));
\* return engine -- the outcome is the network's
GP_Probe(t) ==
    /\ pc[t] = "gp_probe"
    /\ \E ok \in BOOLEAN :
          IF ok
             THEN /\ traffic' = traffic \cup {[d |-> arg[t], eng |-> loc[t]]}
                  /\ ret' = [ret EXCEPT ![t] = R("engine", loc[t])]
                  /\ pools_lock' = 0
                  /\ pc' = [pc EXCEPT ![t] = AfterAcquire(t)]
                  /\ probeFails' = probeFails
             ELSE /\ probeFails' = probeFails + 1
                  /\ pc' = [pc EXCEPT ![t] = "gp_stale"]
                  /\ UNCHANGED <<traffic, ret, pools_lock>>
    /\ UNCHANGED <<made, engines, pools, stored, warmTasks, op, arg, loc, ncalls,
                   stale>>
    /\ UNCHANGED <<queryVars, pivotVars, runVars>>

\* engine.dispose() on the engine the thread found registered
StaleLeftOpen(t) == made

StaleDisposed(t) == [made EXCEPT ![loc[t]].disposed = TRUE]

\* except: engine.dispose(); del _pools[pool_key]
GP_Stale(t) ==
    /\ pc[t] = "gp_stale"
    /\ made' = StaleDisposed(t)
    /\ pools' = Del(pools, PoolKey(arg[t]))
    /\ stale' = [stale EXCEPT ![t] = loc[t]]
    /\ loc' = [loc EXCEPT ![t] = 0]
    /\ pc' = [pc EXCEPT ![t] = "gp_create"]
    /\ UNCHANGED <<engines, pools_lock, stored, warmTasks, traffic,
                   op, arg, ret, ncalls, probeFails>>
    /\ UNCHANGED <<queryVars, pivotVars, runVars>>

\* url = _build_sqlalchemy_url(...); engine = create_engine(...);
\* _pools[pool_key] = engine; return engine.  A ValueError leaves the with
\* block, which releases the lock; warm_pool catches it and returns False.
PoolsRegistered(t) == Put(pools, PoolKey(arg[t]), Len(made) + 1)

GP_Create(t) ==
    /\ pc[t] = "gp_create"
    /\ pools_lock' = 0
    /\ IF PoolUrl(arg[t].db_type) = "ValueError"
          THEN /\ ret' = [ret EXCEPT ![t] =
                      IF op[t] = "warm_pool" THEN R("False", 0)
                                             ELSE R("ValueError", 0)]
               /\ pc' = [pc EXCEPT ![t] = "done"]
               /\ UNCHANGED <<made, pools, loc>>
          ELSE /\ made' = Append(made,
                     NewEngine(arg[t], "connection_pool", PoolUrl(arg[t].db_type)))
               /\ pools' = PoolsRegistered(t)
               /\ loc' = [loc EXCEPT ![t] = Len(made) + 1]
               /\ ret' = [ret EXCEPT ![t] = R("engine", Len(made) + 1)]
               /\ pc' = [pc EXCEPT ![t] = AfterAcquire(t)]
    /\ UNCHANGED <<engines, stored, warmTasks, traffic, op, arg, ncalls, probeFails, stale>>
    /\ UNCHANGED <<queryVars, pivotVars, runVars>>

\* for i in range(min(POOL_SIZE, 3)): conn = engine.connect(); SELECT 1 ...
\* a failure breaks out of the loop; warm_pool returns True either way
WarmCount == IF POOL_SIZE < WARM_TARGET THEN POOL_SIZE ELSE WARM_TARGET

WP_Warm(t) ==
    /\ pc[t] = "wp_warm"
    /\ \E n \in 0..WarmCount :
          traffic' = IF n > 0 THEN traffic \cup {[d |-> arg[t], eng |-> loc[t]]}
                              ELSE traffic
    /\ ret' = [ret EXCEPT ![t] = R("True", loc[t])]
    /\ pc' = [pc EXCEPT ![t] = "done"]
    /\ UNCHANGED <<made, engines, pools, pools_lock, stored, warmTasks,
                   op, arg, loc, ncalls, probeFails, stale>>
    /\ UNCHANGED <<queryVars, pivotVars, runVars>>

\* with _pools_lock: if pool_key in _pools: dispose(); del _pools[pool_key]
DisposePool(t) ==
    /\ pc[t] = "dp"
    /\ LockFree(t)
    /\ IF PoolKey(arg[t]) \in DOMAIN pools
          THEN /\ made' = [made EXCEPT ![pools[PoolKey(arg[t])]].disposed = TRUE]
               /\ pools' = Del(pools, PoolKey(arg[t]))
          ELSE UNCHANGED <<made, pools>>
    /\ ret' = [ret EXCEPT ![t] = R("None", 0)]
    /\ pc' = [pc EXCEPT ![t] = "done"]
    /\ UNCHANGED <<engines, pools_lock, stored, warmTasks, traffic,
                   op, arg, loc, ncalls, probeFails, stale>>
    /\ UNCHANGED <<queryVars, pivotVars, runVars>>

\* with _pools_lock: for key, engine in _pools.items(): engine.dispose();
\* _pools.clear()
DisposeAllPools(t) ==
    /\ pc[t] = "da"
    /\ LockFree(t)
    /\ made' = [i \in DOMAIN made |->
                  IF \E k \in DOMAIN pools : pools[k] = i
                     THEN [made[i] EXCEPT !.disposed = TRUE] ELSE made[i]]
    /\ pools' = <<>>
    /\ ret' = [ret EXCEPT ![t] = R("None", 0)]
    /\ pc' = [pc EXCEPT ![t] = "done"]
    /\ UNCHANGED <<engines, pools_lock, stored, warmTasks, traffic,
                   op, arg, loc, ncalls, probeFails, stale>>
    /\ UNCHANGED <<queryVars, pivotVars, runVars>>

\* with _pools_lock: status[key] = {...} for every registered pool
GetPoolStatus(t) ==
    /\ pc[t] = "st"
    /\ LockFree(t)
    /\ ret' = [ret EXCEPT ![t] = [kind |-> "status", eng |-> 0,
                                   keys |-> DOMAIN pools]]
    /\ pc' = [pc EXCEPT ![t] = "done"]
    /\ UNCHANGED <<made, engines, pools, pools_lock, stored, warmTasks, traffic,
                   op, arg, loc, ncalls, probeFails, stale>>
    /\ UNCHANGED <<queryVars, pivotVars, runVars>>

NextPool ==
    \/ \E t \in Threads : StartPoolCall(t)
    \/ \E t \in Threads : GP_Enter(t)
    \/ \E t \in Threads : GP_Probe(t)
    \/ \E t \in Threads : GP_Stale(t)
    \/ \E t \in Threads : GP_Create(t)
    \/ \E t \in Threads : WP_Warm(t)
    \/ \E t \in Threads : DisposePool(t)
    \/ \E t \in Threads : DisposeAllPools(t)
    \/ \E t \in Threads : GetPoolStatus(t)
    \/ \E t \in Threads : Finish(t)

SpecPool == Init /\ [][NextPool]_vars

\* warm_pool called once by every thread on an initially empty registry
StartWarm(t) ==
    /\ pc[t] = "idle"
    /\ \E d \in Descriptors : arg' = [arg EXCEPT ![t] = d]
    /\ op' = [op EXCEPT ![t] = "warm_pool"]
    /\ pc' = [pc EXCEPT ![t] = "gp_enter"]
    /\ ncalls' = ncalls + 1
    /\ UNCHANGED <<made, engines, pools, pools_lock, stored, warmTasks, traffic,
                   loc, ret, probeFails, stale>>
    /\ UNCHANGED <<queryVars, pivotVars, runVars>>

NextWarm ==
    \/ \E t \in Threads : StartWarm(t)
    \/ \E t \in Threads : GP_Enter(t)
    \/ \E t \in Threads : GP_Probe(t)
    \/ \E t \in Threads : GP_Stale(t)
    \/ \E t \in Threads : GP_Create(t)
    \/ \E t \in Threads : WP_Warm(t)

SpecWarm == Init /\ [][NextWarm]_vars

NextEngine ==
    \/ \E t \in Threads : StartEngineCall(t)
    \/ \E t \in Threads : GE_Check(t)
    \/ \E t \in Threads : GE_Create(t)
    \/ \E t \in Threads : Use(t)
    \/ \E t \in Threads : Finish(t)
    \/ UpdateConnection
    \/ WarmUpSingle

SpecEngine == Init /\ [][NextEngine]_vars

\* acquisition through either registry: get_engine callers and
\* get_or_create_pool, on every descriptor
StartAcquire(t) ==
    /\ pc[t] = "idle"
    /\ ncalls < MaxCalls
    /\ \E d \in Descriptors : arg' = [arg EXCEPT ![t] = d]
    /\ op' = [op EXCEPT ![t] = "get_or_create_pool"]
    /\ pc' = [pc EXCEPT ![t] = "gp_enter"]
    /\ ncalls' = ncalls + 1
    /\ UNCHANGED <<made, engines, pools, pools_lock, stored, warmTasks, traffic,
                   loc, ret, probeFails, stale>>
    /\ UNCHANGED <<queryVars, pivotVars, runVars>>

NextAcquire ==
    \/ \E t \in Threads : StartEngineCall(t)
    \/ \E t \in Threads : GE_Check(t)
    \/ \E t \in Threads : GE_Create(t)
    \/ \E t \in Threads : Use(t)
    \/ \E t \in Threads : StartAcquire(t)
    \/ \E t \in Threads : GP_Enter(t)
    \/ \E t \in Threads : GP_Probe(t)
    \/ \E t \in Threads : GP_Stale(t)
    \/ \E t \in Threads : GP_Create(t)
    \/ \E t \in Threads : Finish(t)

SpecAcquire == Init /\ [][NextAcquire]_vars

(***************************************************************************)
(* Properties of the pool registries.                                       *)
(***************************************************************************)
DifferOnlyInPassword(a, b) ==
    /\ a.password # b.password
    /\ a.db_type = b.db_type
    /\ a.host = b.host
    /\ a.port = b.port
    /\ a.database = b.database
    /\ a.username = b.username

\* thread t holds an engine that an acquisition handed to it
HoldsEngine(t) ==
    /\ pc[t] \in {"use", "wp_warm", "done"}
    /\ ret[t].kind \notin {"ValueError", "False", "None", "status"}
    /\ IF pc[t] = "use" THEN loc[t] # 0 ELSE ret[t].eng # 0

HeldEngine(t) == IF pc[t] = "use" THEN loc[t] ELSE ret[t].eng

\* C1: descriptors that differ only in password have different engine_pool
\* keys, and get_engine never hands one of them (nor runs its statements on)
\* the engine that was created for the other.
C1_EngineKeyIsolation ==
    /\ \A a, b \in Descriptors :
          DifferOnlyInPassword(a, b) => EngineKey(a) # EngineKey(b)
    /\ \A t \in Threads :
          HoldsEngine(t) => ~DifferOnlyInPassword(made[HeldEngine(t)].cfg, arg[t])
    /\ \A q \in traffic : ~DifferOnlyInPassword(made[q.eng].cfg, q.d)

C1_Witness ==
    \E t \in Threads :
       /\ pc[t] = "done"
       /\ ret[t].kind = "ok"
       /\ made[ret[t].eng].cfg = arg[t]
       /\ \E i \in 1..Len(made) : DifferOnlyInPassword(made[i].cfg, arg[t])

\* C2: get_or_create_pool (directly or through warm_pool) never hands a
\* caller the pool that was created for a descriptor differing from the
\* caller's only in password.
C2_PoolKeyIsolation ==
    \A t \in Threads :
       HoldsEngine(t) => ~DifferOnlyInPassword(made[HeldEngine(t)].cfg, arg[t])

\* the pools created so far through connection_pool for key k
PoolsMadeFor(k) ==
    {i \in 1..Len(made) :
        made[i].via = "connection_pool" /\ PoolKey(made[i].cfg) = k}

AllWarmReturned ==
    /\ \A t \in Threads : pc[t] = "done" /\ op[t] = "warm_pool"
    /\ \A t, u \in Threads : PoolKey(arg[t]) = PoolKey(arg[u])

C4_SingleEnginePerKey ==
    /\ \A i, j \in 1..Len(made) :
          EngineKey(made[i].cfg) = EngineKey(made[j].cfg) => i = j
    /\ \A t, u \in Threads :
          (HoldsEngine(t) /\ HoldsEngine(u)
              /\ EngineKey(arg[t]) = EngineKey(arg[u]))
             => HeldEngine(t) = HeldEngine(u)

\* C5: no thread holds _pools_lock while it performs the blocking liveness
\* probe (engine.connect() and SELECT 1).
C5_LockNotHeldOverNetwork ==
    \A t \in Threads : pools_lock = t => pc[t] # "gp_probe"

\* C6: when get_or_create_pool finds the registered pool stale, the step that
\* ends its critical section leaves the stale pool disposed and out of the
\* registry, a new pool registered under the same key, and that new pool
\* returned to the caller without an error.
C6_Step(t) ==
    (pc[t] = "gp_create" /\ stale[t] # 0 /\ pc'[t] # "gp_create") =>
       /\ ret'[t].kind = "engine"
       /\ ret'[t].eng # stale[t]
       /\ made'[stale[t]].disposed
       /\ ~made'[ret'[t].eng].disposed
       /\ made'[ret'[t].eng].cfg = arg[t]
       /\ PoolKey(arg[t]) \in DOMAIN pools'
       /\ pools'[PoolKey(arg[t])] = ret'[t].eng
       /\ \A k \in DOMAIN pools' : pools'[k] # stale[t]
       /\ pools_lock' = 0

C6_StaleRecreated == [][\A t \in Threads : C6_Step(t)]_vars

C6_Witness ==
    \E t \in Threads :
       /\ pc[t] = "done"
       /\ op[t] = "get_or_create_pool"
       /\ stale[t] # 0
       /\ ret[t].kind = "engine"

\* C7: an update_connection that changes the host or the password leaves no
\* engine_pool entry for the descriptor the connection had before.
C7_OldPoolDisposed ==
    [][EngineKey(stored') # EngineKey(stored)
          => EngineKey(stored) \notin DOMAIN engines']_vars

Unsupported(d) == d.db_type \notin SupportedTypes

\* C8: acquiring a pool for a backend type outside mssql, postgresql, mysql
\* ends in the configuration error, every step of such a call leaves both
\* registries as they were, no engine is ever built for such a type and no
\* statement is ever executed for it.
C8_State ==
    /\ \A t \in Threads :
          (pc[t] = "done" /\ Unsupported(arg[t])) => ret[t] = R("ValueError", 0)
    /\ \A t \in Threads : Unsupported(arg[t]) => loc[t] = 0
    /\ \A i \in 1..Len(made) :
          /\ ~Unsupported(made[i].cfg)
          /\ made[i].url # "ValueError"
    /\ \A d \in Descriptors :
          Unsupported(d) =>
             /\ EngineKey(d) \notin DOMAIN engines
             /\ PoolKey(d) \notin DOMAIN pools
    /\ \A q \in traffic : ~Unsupported(q.d)

C8_Step(t) ==
    (Unsupported(arg[t]) /\ pc'[t] # pc[t]) =>
       /\ engines' = engines
       /\ pools' = pools
       /\ made' = made
       /\ traffic' = traffic

C8_UnsupportedTypeFailsFast ==
    /\ []C8_State
    /\ [][\A t \in Threads : C8_Step(t)]_vars

C8_Witness ==
    \E t, u \in Threads :
       /\ pc[t] = "done" /\ op[t] \in EngineOps
       /\ Unsupported(arg[t]) /\ ret[t].kind = "ValueError"
       /\ pc[u] = "done" /\ op[u] = "get_or_create_pool"
       /\ Unsupported(arg[u]) /\ ret[u].kind = "ValueError"

(***************************************************************************)
(* Drill-down: QueryEngine.execute_pivot_drill and the lazy endpoint        *)
(* pivot.execute_lazy_pivot.  Identifiers are sequences of characters; a    *)
(* query is the record of the clauses the handler assembles.                *)
(***************************************************************************)
MaxDims == 2
MaxKeys == 2

AlnumChars == {"a", "b", "m", "p", "0", "1"}
\* _sanitize_column_name: keep c when c.isalnum() or c in '_ '
IsAllowedChar(c) == c \in AlnumChars \cup {"_", " "}

_sanitize_column_name(col) == SelectSeq(col, IsAllowedChar)

\* f'[{clean_col}]' if is_mssql else f'"{clean_col}"'
ColRef(col, is_mssql) ==
    IF is_mssql THEN <<"[">> \o _sanitize_column_name(col) \o <<"]">>
                ELSE <<"\"">> \o _sanitize_column_name(col) \o <<"\"">>

Cols == {<<"a">>, <<"b">>, <<"b", ";">>}
Vals == {"v1", "v2"}
PivotChoices == {<<>>, << <<"p">> >>}
ValueChoices == {<<>>, <<[colId |-> <<"m">>, aggFunc |-> "sum"]>>,
                 <<[colId |-> <<"m">>, aggFunc |-> "count"]>>}
\* filterModel as the dict's items in insertion order
FilterChoices ==
    {<<>>,
     <<[col |-> <<"b">>, type |-> "equals", filter |-> "v2"]>>,
     <<[col |-> <<"a">>, type |-> "isNull", filter |-> "v1"],
       [col |-> <<"m">>, type |-> "contains", filter |-> "v1"]>>}

SeqsUpTo(S, n) == UNION {[1..k -> S] : k \in 0..n}

DrillRequests ==
    [endpoint : {"drill"}, db_type : {"mssql", "postgresql"},
     rowGroupCols : SeqsUpTo(Cols, MaxDims), groupKeys : SeqsUpTo(Vals, MaxKeys),
     pivotCols : PivotChoices, valueCols : ValueChoices,
     filterModel : FilterChoices, depth : {0}]

\* the lazy endpoint takes group_by (rowGroupCols here), the depth and the
\* parent path (groupKeys here, keyed by the leading dimensions)
LazyRequests ==
    [endpoint : {"lazy"}, db_type : {"mssql", "postgresql"},
     rowGroupCols : SeqsUpTo(Cols, MaxDims), groupKeys : SeqsUpTo(Vals, MaxKeys),
     pivotCols : {<<>>}, valueCols : ValueChoices,
     filterModel : {<<>>}, depth : 0..MaxKeys]

\* the parameter-bearing filter types of _build_drill_filter_clause
ParamOps ==
    [equals |-> "=", notEqual |-> "!=", greaterThan |-> ">", lessThan |-> "<",
     greaterThanOrEqual |-> ">=", lessThanOrEqual |-> "<=", contains |-> "LIKE"]

\* 1. Parent Path Filters: one equality per group key, on row_group_cols[idx]
KeyConditions(group_keys, row_group_cols, is_mssql) ==
    [i \in 1..Len(group_keys) |->
        [ref |-> ColRef(row_group_cols[i], is_mssql),
         op |-> "=", param |-> <<"gk", i - 1>>, value |-> group_keys[i]]]

\* 2. UI Filter Model: param_counter goes on from the number of group keys
RECURSIVE FilterConditions(_, _, _)
FilterConditions(filter_model, counter, is_mssql) ==
    IF filter_model = <<>> THEN <<>>
    ELSE LET f == Head(filter_model)
             ref == ColRef(f.col, is_mssql)
         IN  IF f.type \in DOMAIN ParamOps
                THEN <<[ref |-> ref, op |-> ParamOps[f.type],
                        param |-> <<"f", counter>>,
                        value |-> IF f.type = "contains"
                                     THEN <<"%", f.filter, "%">> ELSE f.filter]>>
                     \o FilterConditions(Tail(filter_model), counter + 1, is_mssql)
                ELSE IF f.type = "isNotNull"
                THEN <<[ref |-> ref, op |-> "IS NOT NULL", param |-> <<>>,
                        value |-> <<>>]>>
                     \o FilterConditions(Tail(filter_model), counter, is_mssql)
                ELSE IF f.type = "isNull"
                THEN <<[ref |-> ref, op |-> "IS NULL", param |-> <<>>,
                        value |-> <<>>]>>
                     \o FilterConditions(Tail(filter_model), counter, is_mssql)
                ELSE FilterConditions(Tail(filter_model), counter, is_mssql)

\* the conditions list; the params dict is the param -> value of its entries
_build_drill_filter_clause(filter_model, group_keys, row_group_cols, is_mssql) ==
    KeyConditions(group_keys, row_group_cols, is_mssql)
        \o FilterConditions(filter_model, Len(group_keys), is_mssql)

\* aggFunc.upper()
Upper(agg) ==
    CASE agg = "sum" -> "SUM"
      [] agg = "count" -> "COUNT"
      [] agg = "avg" -> "AVG"
      [] agg = "min" -> "MIN"
      [] agg = "max" -> "MAX"
      [] OTHER -> agg

\* COUNT(*) as col / AGG(col) as col
ValueSelect(v) ==
    IF Upper(v.aggFunc) = "COUNT"
       THEN [fn |-> "COUNT", arg |-> <<"*">>, alias |-> v.colId]
       ELSE [fn |-> Upper(v.aggFunc), arg |-> v.colId, alias |-> v.colId]

PlainSelect(col, alias) == [fn |-> "", arg |-> col, alias |-> alias]

\* flat mode: f"[{col}]" / f'"{col}"' around the raw name
Quote(col, is_mssql) ==
    IF is_mssql THEN <<"[">> \o col \o <<"]">> ELSE <<"\"">> \o col \o <<"\"">>

\* flat mode: quoted pivot and value columns, each once, or *
RECURSIVE Dedup(_, _)
Dedup(cols, seen) ==
    IF cols = <<>> THEN <<>>
    ELSE IF Head(cols) \in seen THEN Dedup(Tail(cols), seen)
    ELSE <<Head(cols)>> \o Dedup(Tail(cols), seen \cup {Head(cols)})

FlatQuery(r) ==
    LET cols == Dedup(r.pivotCols \o [i \in 1..Len(r.valueCols) |-> r.valueCols[i].colId], {})
    IN  [shape |-> "flat",
         select |-> IF cols = <<>> THEN <<PlainSelect(<<"*">>, <<>>)>>
                    ELSE [i \in 1..Len(cols) |->
                            PlainSelect(Quote(cols[i], r.db_type = "mssql"), <<>>)],
         where |-> _build_drill_filter_clause(r.filterModel, <<>>, <<>>,
                                              r.db_type = "mssql"),
         group_by |-> <<>>]

\* the grouped query of one level: group_col = rowGroupCols[current_level]
GroupDims(r) == <<r.rowGroupCols[Len(r.groupKeys) + 1]>> \o r.pivotCols

LevelQuery(r) ==
    [shape |-> "drill",
     select |-> <<PlainSelect(r.rowGroupCols[Len(r.groupKeys) + 1], <<"key_val">>)>>
                \o [i \in 1..Len(r.pivotCols) |->
                       PlainSelect(r.pivotCols[i], r.pivotCols[i])]
                \o [i \in 1..Len(r.valueCols) |-> ValueSelect(r.valueCols[i])],
     where |-> _build_drill_filter_clause(r.filterModel, r.groupKeys,
                                          r.rowGroupCols, r.db_type = "mssql"),
     group_by |-> GroupDims(r)]

\* QueryEngine.execute_pivot_drill up to the statement it hands to the engine
execute_pivot_drill(r) ==
    IF Len(r.rowGroupCols) = 0
       THEN [status |-> "rows", query |-> FlatQuery(r)]
    ELSE IF Len(r.groupKeys) >= Len(r.rowGroupCols)
       THEN [status |-> "empty", query |-> NoQuery]
    ELSE [status |-> "rows", query |-> LevelQuery(r)]

(***************************************************************************)
(* QueryEngine.hash_config: md5(json.dumps(config, sort_keys=True))[:16].   *)
(* Python values are tagged; a dict is the sequence of its items in         *)
(* insertion order, each item a pair <<key, value>>.                        *)
(***************************************************************************)
MaxFilters == 2

PyNone == [t |-> "none", v |-> 0]
PyInt(n) == [t |-> "int", v |-> n]
PyStr(x) == [t |-> "str", v |-> x]
PyBool(b) == [t |-> "bool", v |-> b]
PyList(q) == [t |-> "list", v |-> q]
PyDict(items) == [t |-> "dict", v |-> items]

\* the dict keys of the modelled payloads, in the order sorted() gives them
KeyOrder ==
    <<"aggregation", "calculate_delta", "field", "filters", "group_by", "metrics",
      "name", "query", "split_by", "type", "value", "x", "y", "z">>

Rank(k) == CHOOSE i \in 1..Len(KeyOrder) : KeyOrder[i] = k

\* q without its i-th element
DropAt(q, i) == [j \in 1..(Len(q) - 1) |-> IF j < i THEN q[j] ELSE q[j + 1]]

\* sort_keys=False would keep the insertion order
KeepItems(items) == items

\* sort_keys=True: the items by ascending key
RECURSIVE SortItems(_)
SortItems(items) ==
    IF items = <<>> THEN <<>>
    ELSE LET i == CHOOSE j \in 1..Len(items) :
                     \A l \in 1..Len(items) : Rank(items[j][1]) <= Rank(items[l][1])
         IN  <<items[i]>> \o SortItems(DropAt(items, i))

\* json.dumps(x, sort_keys=True) as the sequence of its tokens
RECURSIVE Dumps(_)
RECURSIVE DumpItems(_)
RECURSIVE DumpList(_)
DumpItems(items) ==
    IF items = <<>> THEN <<>>
    ELSE <<items[1][1], ":">> \o Dumps(items[1][2])
         \o (IF Len(items) > 1 THEN <<",">> ELSE <<>>) \o DumpItems(Tail(items))

DumpList(q) ==
    IF q = <<>> THEN <<>>
    ELSE Dumps(q[1]) \o (IF Len(q) > 1 THEN <<",">> ELSE <<>>) \o DumpList(Tail(q))

Dumps(x) ==
    CASE x.t = "dict" -> <<"{">> \o DumpItems(SortItems(x.v)) \o <<"}">>
      [] x.t = "list" -> <<"[">> \o DumpList(x.v) \o <<"]">>
      [] x.t = "none" -> <<"null">>
      [] OTHER -> <<x>>

\* the digest is a function of the serialized content and of nothing else
Md5Hex16(content) == <<"md5", content>>

hash_config(config) == Md5Hex16(Dumps(config))

\* equality of Python values: dicts compare as maps, lists as sequences
RECURSIVE PyEq(_, _)
PyEq(a, b) ==
    IF a.t # b.t THEN FALSE
    ELSE IF a.t = "dict"
       THEN /\ Len(a.v) = Len(b.v)
            /\ \A i \in 1..Len(a.v) : \E j \in 1..Len(b.v) :
                  a.v[i][1] = b.v[j][1] /\ PyEq(a.v[i][2], b.v[j][2])
    ELSE IF a.t = "list"
       THEN /\ Len(a.v) = Len(b.v)
            /\ \A i \in 1..Len(a.v) : PyEq(a.v[i], b.v[i])
    ELSE a.v = b.v

\* every order in which the keys of the set S can have been inserted
Orderings(S) ==
    {q \in [1..Cardinality(S) -> S] : \A k \in S : \E i \in DOMAIN q : q[i] = k}

\* the dicts holding map's pairs
DictsOf(map) ==
    {PyDict([i \in DOMAIN q |-> <<q[i], map[q[i]]>>]) : q \in Orderings(DOMAIN map)}

FilterColumns == {KeyOrder[11 + i] : i \in 1..MaxFilters}

\* one filter definition {type, value}, in both key orders
FilterDefs(col) ==
    DictsOf([k \in {"type", "value"} |->
                IF k = "type" THEN PyStr("equals") ELSE PyStr(col)])

\* the filter maps over a set of columns, in every insertion order
FilterDicts(colset) ==
    UNION {DictsOf(m) : m \in {f \in [colset -> UNION {FilterDefs(c) : c \in colset}] :
                                 \A c \in colset : f[c] \in FilterDefs(c)}}

\* the payloads the pivot endpoint hashes, limited to what key order can change
HashConfigs ==
    UNION {DictsOf([k \in {"query", "filters"} |->
                       IF k = "query" THEN PyStr("q1") ELSE fd]) :
             fd \in UNION {FilterDicts(cs) : cs \in SUBSET FilterColumns}}

HashCompare ==
    /\ req = NoReq
    /\ \E a \in HashConfigs, b \in HashConfigs :
          /\ req' = [endpoint |-> "hash", a |-> a, b |-> b]
          /\ res' = [status |-> "hashed", ha |-> hash_config(a), hb |-> hash_config(b)]
    /\ UNCHANGED <<poolVars, pivotVars, runVars>>

HashReset ==
    /\ req # NoReq
    /\ req' = NoReq
    /\ res' = NoRes
    /\ UNCHANGED <<poolVars, pivotVars, runVars>>

NextHash ==
    \/ HashCompare
    \/ HashReset

SpecHash == Init /\ [][NextHash]_vars

\* C12: hash_config gives the same hash to any two payloads that are equal as
\* nested maps, whatever the order their keys were inserted in.
C12_HashIgnoresKeyOrder ==
    (req # NoReq /\ PyEq(req.a, req.b)) => res.ha = res.hb

\* two payloads equal as maps, with different item orders at both levels
C12_Witness ==
    /\ req # NoReq
    /\ PyEq(req.a, req.b)
    /\ req.a # req.b
    /\ req.a.v[1][1] # req.b.v[1][1]
    /\ \E i \in 1..2 : req.a.v[i][1] = "filters" /\ Len(req.a.v[i][2].v) = MaxFilters
    /\ res.ha = res.hb

(***************************************************************************)
(* SQL synthesis.  A statement is the record of its clauses; identifiers    *)
(* are the character sequences embedded in the text, a condition carries    *)
(* either the name of a bound parameter (param, with the bound value) or    *)
(* the literal written into the text (lit).                                 *)
(***************************************************************************)
Truthy(x) ==
    CASE x.t = "none" -> FALSE
      [] x.t = "int" -> x.v # 0
      [] x.t = "bool" -> x.v
      [] x.t = "str" -> x.v # ""
      [] OTHER -> Len(x.v) > 0

NoLit == <<>>
Cond(ref, o, param, value, lit) ==
    [ref |-> ref, op |-> o, param |-> param, value |-> value, lit |-> lit]

\* a numeric literal written after the keyword kw
Num(kw, n) == [kw |-> kw, n |-> n]

\* the comparison operators of _build_safe_filter_clause
SafeOps ==
    [contains |-> "LIKE", equals |-> "=", notEqual |-> "!=", greaterThan |-> ">",
     lessThan |-> "<", greaterThanOrEqual |-> ">=", lessThanOrEqual |-> "<="]

\* _build_safe_filter_clause: one condition per filter, parameters p0, p1, ...
RECURSIVE SafeFilterConditions(_, _, _)
SafeFilterConditions(filters, counter, is_mssql) ==
    IF filters = <<>> THEN <<>>
    ELSE LET f == Head(filters)
             col == ColRef(f.col, is_mssql)
         IN  IF f.type \in DOMAIN SafeOps
                THEN <<Cond(col, SafeOps[f.type], <<"p", counter>>,
                            IF f.type = "contains" THEN <<"%", f.value, "%">>
                                                   ELSE f.value, NoLit)>>
                     \o SafeFilterConditions(Tail(filters), counter + 1, is_mssql)
                ELSE IF f.type = "isNotNull"
                THEN <<Cond(col, "IS NOT NULL", <<>>, <<>>, NoLit)>>
                     \o SafeFilterConditions(Tail(filters), counter, is_mssql)
                ELSE IF f.type = "isNull"
                THEN <<Cond(col, "IS NULL", <<>>, <<>>, NoLit)>>
                     \o SafeFilterConditions(Tail(filters), counter, is_mssql)
                ELSE SafeFilterConditions(Tail(filters), counter, is_mssql)

_build_safe_filter_clause(filters, is_mssql) ==
    SafeFilterConditions(filters, 0, is_mssql)

\* execute_pivot, lines 409-440: the select part of one metric
PivotMetricSelect(m, is_mssql) ==
    IF m.type = "margin"
       THEN <<[fn |-> "MARGIN", arg |-> Quote(m.revenueField, is_mssql),
               arg2 |-> Quote(m.costField, is_mssql),
               alias |-> Quote(m.name, is_mssql)]>>
    ELSE IF m.field = <<>> THEN <<>>
    ELSE IF m.field = <<"*">>
       THEN <<[fn |-> Upper(m.aggregation), arg |-> <<"*">>,
               alias |-> Quote(m.name, is_mssql)]>>
    ELSE <<[fn |-> Upper(m.aggregation), arg |-> Quote(m.field, is_mssql),
            alias |-> Quote(m.name, is_mssql)]>>

RECURSIVE Flatten(_)
Flatten(qq) == IF qq = <<>> THEN <<>> ELSE Head(qq) \o Flatten(Tail(qq))

Failed(exc) == [status |-> exc, query |-> NoQuery]

\* get_engine(db_type, config) as far as its arguments decide the outcome:
\* config['username'] needs a dict, _build_sqlalchemy_url a supported type
EngineFor(db_type, config) ==
    IF config.t # "dict" THEN "TypeError"
    ELSE IF db_type \notin SupportedTypes THEN "ValueError"
    ELSE "ok"

\* QueryEngine.execute_pivot(db_type, config, base_query, group_by, metrics,
\* filters, limit) on the Python values it is handed
QueryEngine_execute_pivot(db_type, config, base_query, group_by, metrics, filters, limit) ==
    LET is_mssql == db_type = "mssql"
    IN
    IF ~Truthy(group_by) /\ ~Truthy(metrics)
       THEN \* CASE 1: flat table, TOP / LIMIT row_limit
            IF EngineFor(db_type, config) # "ok"
               THEN Failed(EngineFor(db_type, config))
               ELSE \* the statement runs, then line 396 reads the undefined `start`
                    [status |-> "NameError",
                     query |-> [shape |-> "flat_table", select |-> <<PlainSelect(<<"*">>, <<>>)>>,
                                where |-> <<>>, group_by |-> <<>>, order_by |-> <<>>,
                                nums |-> <<Num(IF is_mssql THEN "TOP" ELSE "LIMIT",
                                               IF Truthy(limit) THEN limit.v ELSE 10000)>>]]
    ELSE IF metrics.t = "dict" /\ Len(metrics.v) > 0
       THEN Failed("AttributeError")      \* m.get on a dict key
    ELSE IF Truthy(filters) /\ filters.t # "dict"
       THEN Failed("AttributeError")      \* filters.items()
    ELSE IF EngineFor(db_type, config) # "ok"
       THEN Failed(EngineFor(db_type, config))
    ELSE LET cols == [i \in 1..Len(group_by.v) |-> Quote(group_by.v[i], is_mssql)]
             parts == [i \in 1..Len(cols) |-> PlainSelect(cols[i], <<>>)]
                      \o Flatten([i \in 1..Len(metrics.v) |->
                                     PivotMetricSelect(metrics.v[i], is_mssql)])
         IN  [status |-> "ok",
              query |-> [shape |-> "pivot",
                         select |-> IF parts = <<>> THEN <<PlainSelect(<<"*">>, <<>>)>>
                                    ELSE parts,
                         where |-> IF Truthy(filters)
                                      THEN _build_safe_filter_clause(filters.v, is_mssql)
                                      ELSE <<>>,
                         group_by |-> cols,
                         order_by |-> cols,
                         nums |-> IF Truthy(limit)
                                     THEN <<Num(IF is_mssql THEN "TOP" ELSE "LIMIT", limit.v)>>
                                     ELSE <<>>]]

(***************************************************************************)
(* pivot.execute_pivot_with_split: the grouped statement, then the reshape  *)
(* of its result.  A table is its column names and its set of rows, a row   *)
(* a function from column name to cell; the grouped result the database     *)
(* returns has one row per distinct (group, split) key.                     *)
(***************************************************************************)
\* the null cell; metric values are naturals
Null == -1
SplitAggs == {"SUM", "AVG", "COUNT", "MIN", "MAX"}

\* lines 221-231: the metrics that get a select part and a metric name
SplitMetrics(metrics) ==
    SelectSeq(metrics, LAMBDA m : m.field # <<>> /\ Upper(m.aggregation) \in SplitAggs)

\* lines 242-253: values are written into the text between quotes
RECURSIVE SplitConditions(_, _)
SplitConditions(filters, is_mssql) ==
    IF filters = <<>> THEN <<>>
    ELSE LET f == Head(filters)
             col == Quote(f.col, is_mssql)
         IN  IF f.type = "contains"
                THEN <<Cond(col, "LIKE", <<>>, <<>>, <<"'%", f.value, "%'">>)>>
                     \o SplitConditions(Tail(filters), is_mssql)
                ELSE IF f.type = "equals"
                THEN <<Cond(col, "=", <<>>, <<>>, <<"'", f.value, "'">>)>>
                     \o SplitConditions(Tail(filters), is_mssql)
                ELSE SplitConditions(Tail(filters), is_mssql)

\* lines 208-261: the GROUP BY statement over group_by + split_by
SplitQuery(group_by, split_by, metrics, filters, is_mssql) ==
    LET all_groups == group_by \o split_by
        cols == [i \in 1..Len(all_groups) |-> Quote(all_groups[i], is_mssql)]
        ms == SplitMetrics(metrics)
    IN  [shape |-> "split",
         select |-> [i \in 1..Len(cols) |-> PlainSelect(cols[i], <<>>)]
                    \o [i \in 1..Len(ms) |->
                           [fn |-> Upper(ms[i].aggregation),
                            arg |-> Quote(ms[i].field, is_mssql),
                            alias |-> Quote(ms[i].name, is_mssql)]],
         where |-> SplitConditions(filters, is_mssql),
         group_by |-> cols,
         order_by |-> <<>>,
         nums |-> <<>>]

Range(q) == {q[i] : i \in DOMAIN q}

Table(columns, rows) == [columns |-> columns, rows |-> rows]

\* the DataFrame of the grouped result: its columns are the group, split and
\* metric names; grouped holds records [g, s, m] of cell tuples
GroupedFrame(grouped, group_by, split_by, metric_names) ==
    LET columns == group_by \o split_by \o metric_names
        RowOf(r) == [c \in Range(columns) |->
                        LET cells == r.g \o r.s \o r.m
                        IN  cells[CHOOSE i \in 1..Len(columns) : columns[i] = c]]
    IN  Table(columns, {RowOf(r) : r \in grouped})

\* pl.concat_str(split_by, separator="|") / the single split column
RECURSIVE ColumnPath(_)
ColumnPath(svals) ==
    IF Len(svals) = 1 THEN <<svals[1]>>
    ELSE <<svals[1], "|">> \o ColumnPath(Tail(svals))

HelperColumn == <<"_column_path">>

\* lines 284-290: the frame with the helper column when it is needed
WithColumnPath(grouped, group_by, split_by, metric_names) ==
    LET df == GroupedFrame(grouped, group_by, split_by, metric_names)
    IN  IF Len(split_by) > 1
           THEN Table(df.columns \o <<HelperColumn>>,
                      {[c \in Range(df.columns) \cup {HelperColumn} |->
                           LET cells == r.g \o r.s \o r.m
                           IN  IF c = HelperColumn THEN ColumnPath(r.s)
                               ELSE cells[CHOOSE i \in 1..Len(df.columns) :
                                             df.columns[i] = c]] : r \in grouped})
           ELSE df

\* lines 296-322: one pivoted frame per metric, renamed '<path>|<metric>' and
\* outer-joined on the index columns (every frame has every index tuple)
Pivoted(grouped, group_by, metric_names) ==
    LET paths == {ColumnPath(r.s) : r \in grouped}
        wide == {p \o <<"|">> \o metric_names[i] :
                    p \in paths, i \in 1..Len(metric_names)}
        Cell(gt, c) ==
            IF \E i \in 1..Len(group_by) : group_by[i] = c
               THEN gt[CHOOSE i \in 1..Len(group_by) : group_by[i] = c]
               ELSE LET hits == {<<r, i>> \in grouped \X (1..Len(metric_names)) :
                                    /\ r.g = gt
                                    /\ ColumnPath(r.s) \o <<"|">> \o metric_names[i] = c}
                    IN  IF hits = {} THEN Null
                        ELSE LET h == CHOOSE x \in hits : TRUE IN h[1].m[h[2]]
    IN  [columns |-> Range(group_by) \cup wide,
         rows |-> {[c \in Range(group_by) \cup wide |-> Cell(gt, c)] :
                      gt \in {r.g : r \in grouped}}]

\* the frame to a table whose column order is left open
Unordered(t) == [columns |-> Range(t.columns), rows |-> t.rows]

\* a guard that never refuses to pivot
AlwaysPivot(group_by) == FALSE

\* line 279: no index column to pivot against
CannotPivot(group_by) == group_by = <<>>

\* lines 269-375: what execute_pivot_with_split returns for a grouped result
Reshape(grouped, group_by, split_by, metrics) ==
    LET metric_names == [i \in 1..Len(SplitMetrics(metrics)) |-> SplitMetrics(metrics)[i].name]
        df == GroupedFrame(grouped, group_by, split_by, metric_names)
    IN  IF grouped = {} THEN [table |-> Unordered(df), row_count |-> 0]
        ELSE IF split_by = <<>> \/ CannotPivot(group_by)
           THEN [table |-> Unordered(df), row_count |-> Cardinality(df.rows)]
        ELSE IF metric_names = <<>>
           THEN \* result_df is None after the loop: the frame as it stands
                LET kept == WithColumnPath(grouped, group_by, split_by, metric_names)
                IN  [table |-> Unordered(kept), row_count |-> Cardinality(kept.rows)]
        ELSE LET wide == Pivoted(grouped, group_by, metric_names)
             IN  [table |-> wide, row_count |-> Cardinality(wide.rows)]

\* the rows behind a report's base query: group cells, split cells, a measure
Fact(g, sp, v) == [g |-> g, s |-> sp, v |-> v]
FactPool ==
    {Fact(<<"A">>, <<"E", "23">>, 100), Fact(<<"A">>, <<"E", "24">>, 150),
     Fact(<<"A">>, <<"F", "23">>, 50), Fact(<<"B">>, <<"E", "23">>, 70)}

RECURSIVE SumV(_)
SumV(S) == IF S = {} THEN 0
           ELSE LET x == CHOOSE y \in S : TRUE IN x.v + SumV(S \ {x})

\* the database's answer to the GROUP BY statement: one row per distinct key
\* over the first ng group and ns split columns, one cell per metric
GroupedResult(facts, ng, ns, ms) ==
    LET Key(f) == <<SubSeq(f.g, 1, ng), SubSeq(f.s, 1, ns)>>
    IN  {[g |-> k[1], s |-> k[2],
          m |-> [i \in 1..Len(ms) |->
                    LET grp == {f \in facts : Key(f) = k}
                    IN  IF Upper(ms[i].aggregation) = "COUNT" THEN Cardinality(grp)
                        ELSE SumV(grp)]] : k \in {Key(f) : f \in facts}}

\* ipc.new_stream(...).write_table(...): the bytes are a function of the table
Serialize(table) == [kind |-> "arrow", table |-> table]

\* execute_pivot_with_split on the rows the base query yields
execute_pivot_with_split(group_by, split_by, metrics, filters, db_type, facts) ==
    LET is_mssql == db_type = "mssql"
        grouped == GroupedResult(facts, Len(group_by), Len(split_by), SplitMetrics(metrics))
        out == Reshape(grouped, group_by, split_by, metrics)
    IN  [status |-> "ok",
         query |-> SplitQuery(group_by, split_by, metrics, filters, is_mssql),
         arrow_bytes |-> Serialize(out.table),
         row_count |-> out.row_count]

\* the data behind the reports at each version
FactsAt(ver) ==
    IF ver = 0 THEN {f \in FactPool : f.g = <<"A">>}
    ELSE {f \in FactPool : f.v < 100 + 50 * ver}

ColA == <<"a">>
ColP == <<"p">>
SumM == [name |-> <<"m">>, field |-> <<"m">>, type |-> "sum", aggregation |-> "SUM",
         revenueField |-> <<>>, costField |-> <<>>]

\* Report rows joined with their Connection; report 3 does not exist
ReportTable ==
    [i \in {1, 2} |->
        [query |-> "q1", cache_enabled |-> (i = 1),
         default_group_by |-> <<>>, default_metrics |-> <<>>,
         connection |-> InitialConnection]]

PivotRequest(ep, rid, gb, sb, ms, force) ==
    [endpoint |-> ep, report_id |-> rid, group_by |-> gb, split_by |-> sb,
     metrics |-> ms, filters |-> <<>>, calculate_delta |-> TRUE, limit |-> PyNone,
     force_refresh |-> force]

PivotRequests ==
    {PivotRequest("pivot", 1, <<ColA>>, <<ColP>>, <<SumM>>, f) : f \in BOOLEAN}
    \cup {PivotRequest("pivot", 1, <<ColA>>, <<>>, <<SumM>>, FALSE),
          PivotRequest("pivot", 2, <<>>, <<ColP>>, <<SumM>>, FALSE),
          PivotRequest("pivot", 3, <<ColA>>, <<ColP>>, <<SumM>>, FALSE),
          PivotRequest("grand-total", 1, <<>>, <<>>, <<SumM>>, FALSE)}

\* model_dump() of a metric and of the request fields that are hashed
MetricDump(m) ==
    PyDict(<<<<"name", PyStr(m.name)>>, <<"field", PyStr(m.field)>>,
             <<"type", PyStr(m.type)>>, <<"aggregation", PyStr(m.aggregation)>>>>)

FilterDump(f) ==
    <<f.col, PyDict(<<<<"type", PyStr(f.type)>>, <<"value", PyStr(f.value)>>>>)>>

\* pivot.py lines 85-92
ConfigOf(r, report) ==
    PyDict(<<<<"query", PyStr(report.query)>>,
             <<"group_by", PyList([i \in DOMAIN r.group_by |-> PyStr(r.group_by[i])])>>,
             <<"split_by", PyList([i \in DOMAIN r.split_by |-> PyStr(r.split_by[i])])>>,
             <<"metrics", PyList([i \in DOMAIN r.metrics |-> MetricDump(r.metrics[i])])>>,
             <<"filters", PyDict([i \in DOMAIN r.filters |-> FilterDump(r.filters[i])])>>,
             <<"calculate_delta", PyBool(r.calculate_delta)>>>>)

\* QueryEngine.build_connection_string(db_type, config): a connection URL
build_connection_string(db_type, config) == db_type \o "://" \o config.host

\* pivot.py lines 106-148 / 639-658: what the handler gets from the engine
RunPivot(r, report, facts) ==
    LET conn_string == build_connection_string(report.connection.db_type, report.connection)
        metrics == IF r.metrics = <<>> /\ report.default_metrics # <<>>
                      THEN report.default_metrics ELSE r.metrics
        group_by == IF r.group_by # <<>> THEN r.group_by ELSE report.default_group_by
    IN  IF r.endpoint = "grand-total"
           THEN QueryEngine_execute_pivot(conn_string, PyStr(report.query), PyList(<<>>),
                                          PyList(r.metrics), PyDict(r.filters), PyNone, PyNone)
        ELSE IF r.split_by # <<>>
           THEN execute_pivot_with_split(group_by, r.split_by, metrics, r.filters,
                                         report.connection.db_type, facts)
        ELSE QueryEngine_execute_pivot(conn_string, PyStr(report.query), PyList(group_by),
                                       PyList(metrics), PyDict(r.filters), r.limit, PyNone)

(***************************************************************************)
(* The drill-down handlers as operations.                                   *)
(***************************************************************************)
\* pivot.execute_lazy_pivot: the depth check (lines 567-568), then the call
\* of QueryEngine.execute_pivot of lines 587-594 with the connection string
\* in the place of db_type, the base query in the place of config, the single
\* dimension in the place of base_query, the metrics in the place of group_by
\* and the combined filters in the place of metrics
execute_lazy_pivot(r) ==
    IF r.depth >= Len(r.rowGroupCols)
       THEN [status |-> "HTTP400", query |-> NoQuery]
       ELSE LET report == ReportTable[1]
                conn_string == build_connection_string(r.db_type, report.connection)
                combined_filters == [i \in 1..Len(r.groupKeys) |->
                                        <<r.rowGroupCols[1], PyStr(r.groupKeys[i])>>]
                out == QueryEngine_execute_pivot(
                          conn_string, PyStr(report.query),
                          PyList(<<r.rowGroupCols[r.depth + 1]>>),
                          PyList(r.valueCols), PyDict(combined_filters), PyNone, PyNone)
            IN  [status |-> out.status, query |-> out.query]

InitDrill ==
    /\ Init

Receive ==
    /\ req = NoReq
    /\ req' \in DrillRequests \cup LazyRequests
    /\ res' = NoRes
    /\ UNCHANGED <<poolVars, pivotVars, runVars>>

ExecutePivotDrill ==
    /\ req # NoReq /\ req.endpoint = "drill" /\ res = NoRes
    /\ res' = execute_pivot_drill(req)
    /\ UNCHANGED <<req, poolVars, pivotVars, runVars>>

ExecuteLazyPivot ==
    /\ req # NoReq /\ req.endpoint = "lazy" /\ res = NoRes
    /\ res' = execute_lazy_pivot(req)
    /\ UNCHANGED <<req, poolVars, pivotVars, runVars>>

Respond ==
    /\ res # NoRes
    /\ req' = NoReq
    /\ res' = NoRes
    /\ UNCHANGED <<poolVars, pivotVars, runVars>>

NextDrill ==
    \/ Receive
    \/ ExecutePivotDrill
    \/ ExecuteLazyPivot
    \/ Respond

SpecDrill == InitDrill /\ [][NextDrill]_vars

(***************************************************************************)
(* Properties of the drill-down handlers.                                   *)
(***************************************************************************)
\* the depth a request asks for and its number of row-group dimensions
DepthOf(r) == IF r.endpoint = "drill" THEN Len(r.groupKeys) ELSE r.depth
DimsOf(r) == Len(r.rowGroupCols)

Served == req # NoReq /\ res # NoRes

\* C9: a drill-down request whose depth is at least the number of row-group
\* dimensions (of which there is at least one) is rejected with the bounds
\* error and issues no query.
C9_DepthRejected ==
    (Served /\ DimsOf(req) > 0 /\ DepthOf(req) >= DimsOf(req)) =>
       /\ res.status = "HTTP400"
       /\ res.query = NoQuery

\* the conditions of q that bind a group key
KeyConds(q) == SelectSeq(q.where, LAMBDA c : c.param # <<>> /\ c.param[1] = "gk")

\* C10: a drill-down request at depth k below the number of dimensions issues
\* a query that constrains ancestor i, for each i below k, to the caller's
\* i-th key by an equality, binds no key to any other dimension, and groups
\* on dimension k plus the column-split dimensions only.
C10_LevelQuery ==
    (Served /\ DepthOf(req) >= 0 /\ DepthOf(req) < DimsOf(req)) =>
       /\ res.query # NoQuery
       /\ res.query.shape = "drill"
       /\ Len(KeyConds(res.query)) = DepthOf(req)
       /\ \A i \in 1..DepthOf(req) :
             /\ KeyConds(res.query)[i].ref
                   = ColRef(req.rowGroupCols[i], req.db_type = "mssql")
             /\ KeyConds(res.query)[i].op = "="
             /\ KeyConds(res.query)[i].value = req.groupKeys[i]
       /\ res.query.group_by
             = <<req.rowGroupCols[DepthOf(req) + 1]>> \o req.pivotCols

\* the key of an entry of the result cache
CacheKey(h) == <<hs[h].req.report_id, hs[h].config_hash>>

CacheGet(k) == IF k \in DOMAIN cache THEN cache[k] ELSE NoBytes

\* a lookup that pays no attention to force_refresh
ConsultedDespiteForce(r, report) == report.cache_enabled

\* line 97: the cache is consulted
CacheConsulted(r, report) == report.cache_enabled /\ ~r.force_refresh

\* line 99: a non-empty answer is a hit
IsHit(cached) == cached # NoBytes

\* a hit that does not keep the handler from querying
AfterHitQuery == "execute"

\* line 106: on a hit the query block is skipped
AfterHit == "done"

\* line 154: the result is stored
StoreWanted(report) == report.cache_enabled

\* a write of the payload without its rows
PartialValue(h) ==
    [kind |-> "arrow",
     table |-> [columns |-> hs[h].arrow_bytes.table.columns, rows |-> {}]]

\* line 155: the value handed to cache.set_pivot
StoredValue(h) == hs[h].arrow_bytes

\* a request arrives; the Report/Connection lookup of lines 73-82 (627-636)
\* ends it with 404, or the handler goes on to the cache check (lines 85-97)
P_Start(h) ==
    /\ hs[h].pc = "idle"
    /\ \E r \in PivotRequests :
          hs' = [hs EXCEPT ![h] =
                   IF r.report_id \notin DOMAIN ReportTable
                      THEN [IdleHandler EXCEPT !.pc = "done", !.req = r, !.status = "404"]
                   ELSE IF r.endpoint = "grand-total"
                      THEN [IdleHandler EXCEPT !.pc = "execute", !.req = r]
                   ELSE [IdleHandler EXCEPT
                            !.pc = "check", !.req = r,
                            !.config_hash = hash_config(ConfigOf(r, ReportTable[r.report_id]))]]
    /\ UNCHANGED <<cache, dbver, poolVars, queryVars, runVars>>

\* lines 95-104: cache.get_pivot and the hit branch, which returns the cached
\* bytes with row_count -1
P_CheckCache(h) ==
    /\ hs[h].pc = "check"
    /\ LET report == ReportTable[hs[h].req.report_id]
           cached == CacheGet(CacheKey(h))
       IN  hs' = [hs EXCEPT ![h] =
                    IF CacheConsulted(hs[h].req, report)
                       THEN IF IsHit(cached)
                               THEN [@ EXCEPT !.pc = AfterHit, !.reads = 1, !.cache_hit = TRUE,
                                              !.arrow_bytes = cached, !.row_count = -1,
                                              !.status = "200"]
                               ELSE [@ EXCEPT !.pc = "execute", !.reads = 1]
                       ELSE [@ EXCEPT !.pc = "execute"]]
    /\ UNCHANGED <<cache, dbver, poolVars, queryVars, runVars>>

\* lines 106-151 (639-669): the statement runs on the data as it is now; the
\* database may fail it; an exception ends the request (500)
P_Execute(h) ==
    /\ hs[h].pc = "execute"
    /\ LET report == ReportTable[hs[h].req.report_id]
           out == RunPivot(hs[h].req, report, FactsAt(dbver))
       IN  \E db_ok \in BOOLEAN :
              hs' = [hs EXCEPT ![h] =
                       IF out.status # "ok"
                          THEN [@ EXCEPT !.pc = "done", !.status = out.status]
                       ELSE IF ~db_ok
                          THEN [@ EXCEPT !.pc = "done", !.status = "DatabaseError",
                                         !.conns = 1]
                       ELSE [@ EXCEPT !.pc = IF StoreWanted(report) /\ hs[h].req.endpoint = "pivot"
                                                THEN "store" ELSE "done",
                                      !.arrow_bytes = out.arrow_bytes,
                                      !.row_count = out.row_count,
                                      !.conns = 1, !.queries = 1, !.status = "200"]]
    /\ UNCHANGED <<cache, dbver, poolVars, queryVars, runVars>>

\* line 155: cache.set_pivot(report_id, config_hash, arrow_bytes)
P_Store(h) ==
    /\ hs[h].pc = "store"
    /\ cache' = Put(cache, CacheKey(h), StoredValue(h))
    /\ hs' = [hs EXCEPT ![h] = [@ EXCEPT !.pc = "done", !.writes = 1]]
    /\ UNCHANGED <<dbver, poolVars, queryVars, runVars>>

\* lines 157-165: the response (or the error) has gone out
P_Finish(h) ==
    /\ hs[h].pc = "done"
    /\ hs' = [hs EXCEPT ![h] = IdleHandler]
    /\ UNCHANGED <<cache, dbver, poolVars, queryVars, runVars>>

\* the time-to-live of an entry runs out
CacheExpire ==
    /\ \E k \in DOMAIN cache : cache' = Del(cache, k)
    /\ UNCHANGED <<hs, dbver, poolVars, queryVars, runVars>>

\* the data behind the reports changes
DataChange ==
    /\ dbver < MaxVer
    /\ dbver' = dbver + 1
    /\ UNCHANGED <<hs, cache, poolVars, queryVars, runVars>>

NextPivot ==
    \/ \E h \in Handlers : P_Start(h)
    \/ \E h \in Handlers : P_CheckCache(h)
    \/ \E h \in Handlers : P_Execute(h)
    \/ \E h \in Handlers : P_Store(h)
    \/ \E h \in Handlers : P_Finish(h)
    \/ CacheExpire
    \/ DataChange

SpecPivot == Init /\ [][NextPivot]_vars

(***************************************************************************)
(* Properties of the pivot endpoints and of the result cache.               *)
(***************************************************************************)
\* the handler is serving a request for a report that exists
Serving(h) == hs[h].pc # "idle" /\ hs[h].req.report_id \in DOMAIN ReportTable
ReportOf(h) == ReportTable[hs[h].req.report_id]
Answered(h) == Serving(h) /\ hs[h].pc = "done"

\* C11: a grand-total request (no group_by, one SUM metric) that the database
\* does not fail is answered with exactly one row.
C11_GrandTotalOneRow ==
    \A h \in Handlers :
       (Answered(h) /\ hs[h].req.endpoint = "grand-total"
          /\ hs[h].status # "DatabaseError") =>
          /\ hs[h].status = "200"
          /\ hs[h].row_count = 1

\* the payloads a request can have produced so far
FreshPayloads(r) ==
    {RunPivot(r, ReportTable[r.report_id], FactsAt(v)).arrow_bytes : v \in 0..dbver}

Bypassing(h) ==
    /\ Serving(h)
    /\ hs[h].req.endpoint = "pivot"
    /\ (hs[h].req.force_refresh \/ ~ReportOf(h).cache_enabled)

C13_State ==
    \A h \in Handlers :
       Bypassing(h) =>
          /\ hs[h].reads = 0
          /\ ~hs[h].cache_hit
          /\ (hs[h].pc = "done" /\ hs[h].status = "200") =>
                /\ hs[h].queries = 1
                /\ hs[h].arrow_bytes \in FreshPayloads(hs[h].req)
                /\ ReportOf(h).cache_enabled => hs[h].writes = 1

C13_Step(h) ==
    (Bypassing(h) /\ ReportOf(h).cache_enabled
       /\ hs[h].pc = "store" /\ hs'[h].pc = "done") =>
       /\ CacheKey(h) \in DOMAIN cache'
       /\ cache'[CacheKey(h)] = hs[h].arrow_bytes

\* C13: with force_refresh set or the report's cache disabled the pivot
\* endpoint never reads the cache and every payload it returns comes from a
\* query it has just run; with force_refresh set and the cache enabled that
\* payload replaces the entry of the request's key.
C13_BypassIsFresh ==
    /\ []C13_State
    /\ [][\A h \in Handlers : C13_Step(h)]_vars

\* a forced refresh has stored its payload over an entry that another
\* handler was served from
C13_Witness ==
    \E h \in Handlers, g \in Handlers :
       /\ Answered(h) /\ hs[h].req.force_refresh /\ hs[h].writes = 1
       /\ CacheGet(CacheKey(h)) = hs[h].arrow_bytes
       /\ Answered(g) /\ hs[g].cache_hit /\ CacheKey(g) = CacheKey(h)
       /\ hs[g].arrow_bytes # hs[h].arrow_bytes

C14_State ==
    \A h \in Handlers :
       Serving(h) /\ hs[h].req.endpoint = "pivot" =>
          \* on a hit nothing is acquired, run or written
          /\ hs[h].cache_hit =>
                hs[h].conns = 0 /\ hs[h].queries = 0 /\ hs[h].writes = 0
          \* the lookup precedes the query
          /\ (CacheConsulted(hs[h].req, ReportOf(h))
                /\ (hs[h].conns = 1 \/ hs[h].pc = "execute")) => hs[h].reads = 1
          \* a write follows a query that succeeded and was serialized
          /\ (hs[h].writes = 1 \/ hs[h].pc = "store") =>
                /\ hs[h].queries = 1
                /\ hs[h].status = "200"
                /\ hs[h].arrow_bytes # NoBytes
          \* the write precedes the response
          /\ (hs[h].pc = "done" /\ hs[h].status = "200" /\ ~hs[h].cache_hit
                /\ ReportOf(h).cache_enabled) => hs[h].writes = 1
          \* a request that failed has written nothing
          /\ hs[h].status \notin {"200", "none"} => hs[h].writes = 0

\* an entry changes only by the store step of a handler whose query succeeded
C14_Step ==
    \A k \in DOMAIN cache' :
       CacheGet(k) # cache'[k] =>
          \E h \in Handlers :
             /\ hs[h].pc = "store" /\ hs'[h].pc = "done"
             /\ hs[h].queries = 1
             /\ CacheKey(h) = k

\* C14: in the pivot endpoint the cache lookup comes before any query; a hit
\* acquires no connection and runs no query; on a miss with the cache enabled
\* the entry is written only after the query and the serialization succeeded
\* and before the response goes out; a failed query writes nothing.
C14_LookupQueryWriteOrder ==
    /\ []C14_State
    /\ [][C14_Step]_vars

\* one handler has answered from the cache, another has missed, queried and
\* written before answering
C14_Witness ==
    \E h \in Handlers, g \in Handlers :
       /\ Answered(h) /\ hs[h].cache_hit /\ hs[h].status = "200"
       /\ Answered(g) /\ hs[g].reads = 1 /\ ~hs[g].cache_hit
       /\ hs[g].queries = 1 /\ hs[g].writes = 1

\* the complete payloads the requests for the key k can have produced
PayloadsFor(k) ==
    UNION {FreshPayloads(r) :
              r \in {x \in PivotRequests :
                        /\ x.report_id \in DOMAIN ReportTable
                        /\ x.endpoint = "pivot"
                        /\ x.split_by # <<>>
                        /\ <<x.report_id, hash_config(ConfigOf(x, ReportTable[x.report_id]))>> = k}}

C15_State == \A k \in DOMAIN cache : cache[k] \in PayloadsFor(k)

\* last writer wins: a store leaves the storing handler's payload in the entry
C15_Step ==
    \A h \in Handlers :
       (hs[h].pc = "store" /\ hs'[h].pc = "done") =>
          CacheGet(CacheKey(h))' = hs[h].arrow_bytes

MaxRow == 2

\* startRow / endRow as the client sends them
Rows == 0..MaxRow
\* limit: Optional[int]
Limits == {PyNone} \cup {PyInt(n) : n \in (-1)..MaxRow}

\* execute_query, lines 319-323: the statement around the base query
execute_query(db_type, limit) ==
    [status |-> "ok",
     query |-> [shape |-> "query", select |-> <<PlainSelect(<<"*">>, <<>>)>>,
                where |-> <<>>, group_by |-> <<>>, order_by |-> <<>>,
                nums |-> IF Truthy(limit)
                            THEN <<Num(IF db_type = "mssql" THEN "TOP" ELSE "LIMIT",
                                       limit.v)>>
                            ELSE <<>>]]

\* "".join(c for c in col if c.isalnum() or c in '_')
CleanCol(col) == SelectSeq(col, LAMBDA c : c \in AlnumChars \cup {"_"})

\* val.replace("'", "''")
RECURSIVE EscapeQuotes(_)
EscapeQuotes(val) ==
    IF val = <<>> THEN <<>>
    ELSE (IF Head(val) = "'" THEN <<"'", "'">> ELSE <<Head(val)>>)
         \o EscapeQuotes(Tail(val))

\* the comparison types of execute_grid_query that write the bare value
GridBareOps ==
    [greaterThan |-> ">", greaterThanOrEqual |-> ">=", lessThan |-> "<",
     lessThanOrEqual |-> "<="]

\* execute_grid_query, lines 540-571: one clause per filter, the value in text
RECURSIVE GridConditions(_)
GridConditions(filter_model) ==
    IF filter_model = <<>> THEN <<>>
    ELSE LET f == Head(filter_model)
             clean_col == CleanCol(f.col)
             val == EscapeQuotes(f.filter)
             rest == GridConditions(Tail(filter_model))
         IN  IF f.type = "contains"
                THEN <<Cond(clean_col, "LIKE", <<>>, <<>>, <<"'", "%">> \o val \o <<"%", "'">>)>> \o rest
             ELSE IF f.type = "equals"
                THEN <<Cond(clean_col, "=", <<>>, <<>>, <<"'">> \o val \o <<"'">>)>> \o rest
             ELSE IF f.type = "startsWith"
                THEN <<Cond(clean_col, "LIKE", <<>>, <<>>, <<"'">> \o val \o <<"%", "'">>)>> \o rest
             ELSE IF f.type = "notEqual"
                THEN <<Cond(clean_col, "!=", <<>>, <<>>, <<"'">> \o val \o <<"'">>)>> \o rest
             ELSE IF f.type \in DOMAIN GridBareOps
                THEN <<Cond(clean_col, GridBareOps[f.type], <<>>, <<>>, val)>> \o rest
             ELSE IF f.type = "isNotNull"
                THEN <<Cond(clean_col, "IS NOT NULL", <<>>, <<>>, NoLit)>> \o rest
             ELSE IF f.type = "isNull"
                THEN <<Cond(clean_col, "IS NULL", <<>>, <<>>, NoLit)>> \o rest
             ELSE rest

Direction(sort) == IF sort.sort = "desc" THEN "DESC" ELSE "ASC"

OrderBy(col, dir) == [col |-> col, dir |-> dir]

\* ORDER BY (SELECT NULL), the filler mssql needs before OFFSET
SelectNull == <<OrderBy(<<"(SELECT NULL)">>, "")>>

\* OFFSET {offset} ROWS FETCH NEXT {limit} ROWS ONLY / LIMIT {limit} OFFSET {offset}
Paging(is_mssql, limit, offset) ==
    IF is_mssql THEN <<Num("OFFSET", offset), Num("FETCH NEXT", limit)>>
                ELSE <<Num("LIMIT", limit), Num("OFFSET", offset)>>

\* execute_grid_query, lines 537-607: the page statement
execute_grid_query(r) ==
    LET is_mssql == r.db_type = "mssql"
        order == [i \in 1..Len(r.sortModel) |->
                     OrderBy(CleanCol(r.sortModel[i].colId), Direction(r.sortModel[i]))]
    IN  [status |-> "ok",
         query |-> [shape |-> "grid", select |-> <<PlainSelect(<<"*">>, <<>>)>>,
                    where |-> GridConditions(r.filterModel),
                    group_by |-> <<>>,
                    order_by |-> IF is_mssql /\ order = <<>> THEN SelectNull ELSE order,
                    nums |-> Paging(is_mssql, r.endRow - r.startRow, r.startRow)]]

\* x or d
OrElse(x, d) == IF Truthy(x) THEN x.v ELSE d

\* the alias of the group column in the drill statement
KeyVal == <<"key_val">>

\* execute_pivot_drill, lines 675-683: flat mode sorts by the sanitized names
FlatOrder(r) ==
    LET order == [i \in 1..Len(r.sortModel) |->
                     OrderBy(_sanitize_column_name(r.sortModel[i].colId),
                             Direction(r.sortModel[i]))]
    IN  IF r.base.db_type = "mssql" /\ order = <<>> THEN SelectNull ELSE order

\* lines 775-806: the sort columns that exist in the grouped output, the group
\* column under its alias; ORDER BY key_val ASC when none is left
RECURSIVE LevelOrderClauses(_, _, _)
LevelOrderClauses(sort_model, group_col, available_sort_cols) ==
    IF sort_model = <<>> THEN <<>>
    ELSE LET clean_col == CleanCol(Head(sort_model).colId)
             rest == LevelOrderClauses(Tail(sort_model), group_col, available_sort_cols)
         IN  IF clean_col \notin available_sort_cols THEN rest
             ELSE <<OrderBy(IF clean_col = group_col THEN KeyVal ELSE clean_col,
                            Direction(Head(sort_model)))>> \o rest

\* the level order without the fallback of lines 799-804
LevelOrderNoDefault(r) ==
    LevelOrderClauses(r.sortModel, r.base.rowGroupCols[Len(r.base.groupKeys) + 1],
                      {r.base.rowGroupCols[Len(r.base.groupKeys) + 1], KeyVal}
                         \cup Range(r.base.pivotCols)
                         \cup {r.base.valueCols[i].colId : i \in 1..Len(r.base.valueCols)})

LevelOrder(r) ==
    LET group_col == r.base.rowGroupCols[Len(r.base.groupKeys) + 1]
        available_sort_cols ==
            {group_col, KeyVal} \cup Range(r.base.pivotCols)
               \cup {r.base.valueCols[i].colId : i \in 1..Len(r.base.valueCols)}
        order_clauses == LevelOrderClauses(r.sortModel, group_col, available_sort_cols)
    IN  IF order_clauses = <<>> THEN <<OrderBy(KeyVal, "ASC")>> ELSE order_clauses

HavingOps ==
    [greaterThan |-> ">", greaterThanOrEqual |-> ">=", lessThan |-> "<",
     lessThanOrEqual |-> "<=", equals |-> "=", notEqual |-> "!="]

\* lines 810-840: AGG(clean_field) <op> {val}, the value written into the text
RECURSIVE HavingConditions(_)
HavingConditions(having_model) ==
    IF having_model = <<>> THEN <<>>
    ELSE LET h == Head(having_model)
             agg == Upper(h.aggregation)
             rest == HavingConditions(Tail(having_model))
         IN  IF h.type \in DOMAIN HavingOps
                THEN <<[fn |-> agg,
                        arg |-> IF agg = "COUNT" THEN <<"*">> ELSE CleanCol(h.field),
                        op |-> HavingOps[h.type], param |-> <<>>, value |-> <<>>,
                        lit |-> <<h.value>>]>> \o rest
                ELSE rest

\* execute_pivot_drill with the sort, HAVING and paging clauses of the request
DrillPage(r) ==
    LET out == execute_pivot_drill(r.base)
        is_mssql == r.base.db_type = "mssql"
    IN  IF out.status # "rows" THEN out
        ELSE IF Len(r.base.rowGroupCols) = 0
           THEN \* lines 685-694
                [status |-> "rows",
                 query |-> [shape |-> "drill_flat", inner |-> out.query,
                            having |-> <<>>,
                            order_by |-> FlatOrder(r),
                            nums |-> Paging(is_mssql,
                                            OrElse(r.endRow, 100) - OrElse(r.startRow, 0),
                                            OrElse(r.startRow, 0))]]
           ELSE \* lines 762-864
                [status |-> "rows",
                 query |-> [shape |-> "drill_level", inner |-> out.query,
                            having |-> HavingConditions(r.havingModel),
                            order_by |-> LevelOrder(r),
                            nums |-> Paging(is_mssql,
                                            OrElse(r.endRow, 1000) - OrElse(r.startRow, 0),
                                            OrElse(r.startRow, 0))]]

\* the requests of each shape
Dialects == {"mssql", "postgresql"}

SqlCols == {<<>>, <<ColA>>, <<<<"b", ";">>>>}

MarginM == [name |-> <<"m">>, field |-> <<>>, type |-> "margin", aggregation |-> "SUM",
            revenueField |-> <<"a">>, costField |-> <<"b", ";">>]

MetricChoices ==
    {<<>>, <<SumM>>, <<MarginM>>, <<[SumM EXCEPT !.aggregation = "sum);"]>>}

\* filters as the dict's items in insertion order
SafeFilterChoices ==
    {<<>>,
     <<[col |-> <<"a">>, type |-> "equals", value |-> "v1"]>>,
     <<[col |-> <<"b", ";">>, type |-> "contains", value |-> "v2"],
       [col |-> <<"a">>, type |-> "isNull", value |-> "v1"]>>}

GridVals == {<<"v", "1">>, <<"v", "2">>, <<"'", ";">>}

GridFilterChoices ==
    {<<>>,
     <<[col |-> <<"a">>, type |-> "equals", filter |-> <<"v", "1">>]>>,
     <<[col |-> <<"b", ";">>, type |-> "greaterThan", filter |-> <<"v", "2">>]>>,
     <<[col |-> <<"a">>, type |-> "isNull", filter |-> <<"v", "1">>],
       [col |-> <<"m">>, type |-> "contains", filter |-> <<"'", ";">>]>>}

SortChoices ==
    {<<>>, <<[colId |-> <<"a">>, sort |-> "desc"]>>,
     <<[colId |-> <<"b", ";">>, sort |-> "asc"]>>,
     <<[colId |-> <<"m">>, sort |-> "desc"], [colId |-> <<"a">>, sort |-> "asc"]>>,
     <<[colId |-> <<"p">>, sort |-> "asc"]>>}

HavingChoices ==
    {<<>>,
     <<[field |-> <<"m">>, aggregation |-> "sum", type |-> "greaterThan", value |-> "v1"]>>,
     <<[field |-> <<"b", ";">>, aggregation |-> "count", type |-> "equals", value |-> "v2"]>>}

\* startRow / endRow of the drill request: Optional[int]
DrillRows == {PyNone} \cup {PyInt(n) : n \in Rows}

DrillBases ==
    {r \in DrillRequests : r.groupKeys = <<>>}

QueryReqs == [shape : {"query"}, db_type : Dialects, limit : Limits]

PivotSqlReqs ==
    [shape : {"pivot"}, db_type : Dialects, group_by : SqlCols,
     metrics : MetricChoices, filters : SafeFilterChoices, limit : Limits]

SplitSqlReqs ==
    [shape : {"split"}, db_type : Dialects, group_by : SqlCols,
     split_by : {<<ColP>>, <<ColP, <<"b", ";">>>>},
     metrics : MetricChoices, filters : SafeFilterChoices]

GridReqs ==
    [shape : {"grid"}, db_type : Dialects, filterModel : GridFilterChoices,
     sortModel : SortChoices, startRow : Rows, endRow : Rows]

DrillPageReqs ==
    [shape : {"drill"}, base : DrillBases, sortModel : SortChoices,
     havingModel : HavingChoices, startRow : DrillRows, endRow : DrillRows]

\* the connection config dict a caller hands to the engine
ConfigDict ==
    PyDict(<<<<"host", PyStr(InitialConnection.host)>>,
             <<"password", PyStr(InitialConnection.password)>>>>)

\* the statement the engine builds for a request of each shape
StatementOf(r) ==
    CASE r.shape = "query" -> execute_query(r.db_type, r.limit)
      [] r.shape = "pivot" ->
            QueryEngine_execute_pivot(r.db_type, ConfigDict, PyStr("q1"),
                                      PyList(r.group_by), PyList(r.metrics),
                                      PyDict(r.filters), r.limit)
      [] r.shape = "split" ->
            LET out == execute_pivot_with_split(r.group_by, r.split_by, r.metrics,
                                                r.filters, r.db_type, FactPool)
            IN  [status |-> out.status, query |-> out.query]
      [] r.shape = "grid" -> execute_grid_query(r)
      [] r.shape = "drill" -> DrillPage(r)

ExecuteQuery ==
    /\ req = NoReq
    /\ \E r \in QueryReqs : req' = r /\ res' = StatementOf(r)
    /\ UNCHANGED <<poolVars, pivotVars, runVars>>

ExecutePivot ==
    /\ req = NoReq
    /\ \E r \in PivotSqlReqs : req' = r /\ res' = StatementOf(r)
    /\ UNCHANGED <<poolVars, pivotVars, runVars>>

ExecutePivotWithSplit ==
    /\ req = NoReq
    /\ \E r \in SplitSqlReqs : req' = r /\ res' = StatementOf(r)
    /\ UNCHANGED <<poolVars, pivotVars, runVars>>

ExecuteGridQuery ==
    /\ req = NoReq
    /\ \E r \in GridReqs : req' = r /\ res' = StatementOf(r)
    /\ UNCHANGED <<poolVars, pivotVars, runVars>>

ExecuteDrillPage ==
    /\ req = NoReq
    /\ \E r \in DrillPageReqs : req' = r /\ res' = StatementOf(r)
    /\ UNCHANGED <<poolVars, pivotVars, runVars>>

SqlReturn ==
    /\ req # NoReq
    /\ req' = NoReq
    /\ res' = NoRes
    /\ UNCHANGED <<poolVars, pivotVars, runVars>>

NextSql ==
    \/ ExecuteQuery
    \/ ExecutePivot
    \/ ExecutePivotWithSplit
    \/ ExecuteGridQuery
    \/ ExecuteDrillPage
    \/ SqlReturn

SpecSql == Init /\ [][NextSql]_vars

(***************************************************************************)
(* Properties of the generated statements.                                  *)
(***************************************************************************)
\* a condition as it stands in the SQL text: the bound value is not part of it
TextOfCond(c) ==
    [ref |-> IF "ref" \in DOMAIN c THEN c.ref ELSE <<c.fn>> \o c.arg,
     op |-> c.op, param |-> c.param,
     lit |-> IF "lit" \in DOMAIN c THEN c.lit ELSE NoLit]

TextOfConds(cs) == [i \in 1..Len(cs) |-> TextOfCond(cs[i])]

\* the text of a statement
SqlText(q) ==
    IF q.shape = "none" THEN q
    ELSE IF q.shape \in {"drill_flat", "drill_level"}
       THEN [q EXCEPT !.inner = [@ EXCEPT !.where = TextOfConds(@)],
                      !.having = TextOfConds(@)]
    ELSE [q EXCEPT !.where = TextOfConds(@)]

\* the request r with every filter and having value replaced by w
WithValues(r, w) ==
    CASE r.shape \in {"pivot", "split"} ->
            [r EXCEPT !.filters = [i \in 1..Len(@) |-> [@[i] EXCEPT !.value = w]]]
      [] r.shape = "grid" ->
            [r EXCEPT !.filterModel = [i \in 1..Len(@) |-> [@[i] EXCEPT !.filter = w]]]
      [] r.shape = "drill" ->
            [r EXCEPT !.base = [@ EXCEPT !.filterModel =
                                   [i \in 1..Len(@) |-> [@[i] EXCEPT !.filter = w]]],
                      !.havingModel = [i \in 1..Len(@) |-> [@[i] EXCEPT !.value = w]]]
      [] OTHER -> r

ValuesFor(r) == IF r.shape = "grid" THEN GridVals ELSE Vals

\* C16: in every query shape that takes filters the SQL text does not depend
\* on the filter or having values: a request and the same request with other
\* values give the same text and differ only in the bound parameters.
C16_TextIndependentOfValues ==
    (req # NoReq /\ res # NoRes) =>
       \A w \in ValuesFor(req) :
          SqlText(StatementOf(WithValues(req, w)).query) = SqlText(res.query)

\* the statement's clauses, the inner statement of a drill page included
SelectOf(q) == IF "inner" \in DOMAIN q THEN q.inner.select ELSE q.select
WhereOf(q) == IF "inner" \in DOMAIN q THEN q.inner.where ELSE q.where
GroupByOf(q) == IF "inner" \in DOMAIN q THEN q.inner.group_by ELSE q.group_by
HavingOf(q) == IF "having" \in DOMAIN q THEN q.having ELSE <<>>

\* the identifiers written into the text of a statement
Identifiers(q) ==
    UNION {{p.arg, p.alias} \cup (IF "arg2" \in DOMAIN p THEN {p.arg2} ELSE {}) :
              p \in Range(SelectOf(q))}
    \cup {c.ref : c \in Range(WhereOf(q))}
    \cup Range(GroupByOf(q))
    \cup {o.col : o \in Range(q.order_by)}
    \cup {h.arg : h \in Range(HavingOf(q))}

\* the function names written into the text of a statement
Functions(q) ==
    {p.fn : p \in Range(SelectOf(q))} \cup {h.fn : h \in Range(HavingOf(q))}

\* the name inside the dialect's quotes
Unquoted(x) ==
    IF Len(x) >= 2 /\ <<x[1], x[Len(x)]>> \in {<<"[", "]">>, <<"\"", "\"">>}
       THEN SubSeq(x, 2, Len(x) - 1) ELSE x

\* texts the engine writes itself
OwnTexts == {<<>>, <<"*">>, KeyVal, <<"(SELECT NULL)">>}

InClass(x) ==
    x \in OwnTexts \/ \A i \in 1..Len(Unquoted(x)) : IsAllowedChar(Unquoted(x)[i])

\* the function names made of letters only
ClassFunctions == {"", "SUM", "COUNT", "AVG", "MIN", "MAX", "MARGIN"}

\* C17: every column or field identifier and every aggregation function name
\* taken from a request is reduced to alphanumeric, underscore and space
\* before it is written into the SQL text, in every query shape.
C17_IdentifiersSanitized ==
    (req # NoReq /\ res.query # NoQuery) =>
       /\ \A x \in Identifiers(res.query) : InClass(x)
       /\ Functions(res.query) \subseteq ClassFunctions

\* C18: every number written after LIMIT, TOP, OFFSET or FETCH NEXT is a
\* non-negative integer, or the request is rejected before a query is issued.
C18_PagingNonNegative ==
    (req # NoReq /\ res.query # NoQuery) =>
       \A i \in 1..Len(res.query.nums) : res.query.nums[i].n >= 0

(***************************************************************************)
(* pivot.execute_pivot_with_split on the data sets and requests it is       *)
(* called with.                                                             *)
(***************************************************************************)
MaxFacts == 3

ColY == <<"y">>
CountM == [name |-> <<"n">>, field |-> <<"m">>, type |-> "count", aggregation |-> "count",
           revenueField |-> <<>>, costField |-> <<>>]

\* the rows the base query can yield
DataSets == {fs \in SUBSET FactPool : Cardinality(fs) <= MaxFacts}

\* group_by as execute_pivot passes it on (request or report default), one or
\* two split dimensions, metrics with and without a usable aggregation
SplitCalls ==
    [shape : {"split"}, db_type : Dialects, group_by : {<<>>, <<ColA>>},
     split_by : {<<ColP>>, <<ColP, ColY>>},
     metrics : {<<>>, <<SumM>>, <<SumM, CountM>>, <<MarginM>>},
     filters : {<<>>}, facts : DataSets]

SplitCall ==
    /\ req = NoReq
    /\ \E r \in SplitCalls :
          /\ req' = r
          /\ res' = execute_pivot_with_split(r.group_by, r.split_by, r.metrics,
                                             r.filters, r.db_type, r.facts)
    /\ UNCHANGED <<poolVars, pivotVars, runVars>>

SplitReturn ==
    /\ req # NoReq
    /\ req' = NoReq
    /\ res' = NoRes
    /\ UNCHANGED <<poolVars, pivotVars, runVars>>

NextSplit ==
    \/ SplitCall
    \/ SplitReturn

SpecSplit == Init /\ [][NextSplit]_vars

\* the grouped result the database returned for the request in hand
GroupedOf(r) ==
    GroupedResult(r.facts, Len(r.group_by), Len(r.split_by), SplitMetrics(r.metrics))

MetricNamesOf(r) ==
    [i \in 1..Len(SplitMetrics(r.metrics)) |-> SplitMetrics(r.metrics)[i].name]

\* C19: with at least one split dimension and no row-group dimension
\* execute_pivot_with_split raises no error and returns the rows of the
\* grouped result unreshaped: the same columns, the same rows, the same count.
C19_NoIndexNoPivot ==
    (req # NoReq /\ req.group_by = <<>> /\ req.split_by # <<>>) =>
       LET df == GroupedFrame(GroupedOf(req), req.group_by, req.split_by,
                              MetricNamesOf(req))
       IN  /\ res.status = "ok"
           /\ res.arrow_bytes.table.columns = Range(df.columns)
           /\ res.arrow_bytes.table.rows = df.rows
           /\ res.row_count = Cardinality(GroupedOf(req))

\* two split dimensions, two metrics, several grouped rows: returned as they are
C19_Witness ==
    /\ req # NoReq /\ req.group_by = <<>> /\ Len(req.split_by) = 2
    /\ Len(MetricNamesOf(req)) = 2
    /\ Cardinality(GroupedOf(req)) >= 2
    /\ res.row_count = Cardinality(GroupedOf(req))
    /\ res.arrow_bytes.table.columns = {ColP, ColY, SumM.name, CountM.name}

\* the name '<s1>|...|<sk>|<metric>' of a wide column
WideName(svals, metric) == ColumnPath(svals) \o <<"|">> \o metric

\* C20: with row-group dimensions G, split dimensions S and metrics M the
\* result has exactly one row per distinct G-tuple and one column
\* '<s1>|...|<sk>|<metric>' per split path in the data and metric; a cell
\* holds the metric of the grouped row with that G-tuple and path, null when
\* there is none; no helper column (_column_path, *_DROP) is in the output.
C20_WideResult ==
    (req # NoReq /\ req.group_by # <<>> /\ req.split_by # <<>> /\ req.metrics # <<>>
        /\ req.facts # {}) =>
       LET grouped == GroupedOf(req)
           names == MetricNamesOf(req)
           wide == {WideName(r.s, names[i]) : r \in grouped, i \in 1..Len(names)}
           out == res.arrow_bytes.table
       IN  /\ out.columns = Range(req.group_by) \cup wide
           /\ HelperColumn \notin out.columns
           /\ Cardinality(out.rows) = Cardinality({r.g : r \in grouped})
           /\ \A gt \in {r.g : r \in grouped} :
                 \E row \in out.rows :
                    /\ \A i \in 1..Len(req.group_by) : row[req.group_by[i]] = gt[i]
                    /\ \A r \in grouped, i \in 1..Len(names) :
                          r.g = gt => row[WideName(r.s, names[i])] = r.m[i]
                    /\ \A c \in wide :
                          (~\E r \in grouped, i \in 1..Len(names) :
                               r.g = gt /\ WideName(r.s, names[i]) = c) => row[c] = Null

(***************************************************************************)
(* The value of a metric for one group, as the statement of each path       *)
(* computes it.  Amounts are integers, a margin is in hundredths of a       *)
(* percent (ROUND(CAST(... AS DECIMAL(10,2)), 2)).                          *)
(***************************************************************************)
MaxAmount == 2
MaxGroupRows == 2

ColR == <<"r">>
ColC == <<"c">>
\* a margin metric: no source field, or the revenue field as source field
MarginMetrics ==
    {[name |-> <<"m">>, field |-> f, type |-> "margin", aggregation |-> "SUM",
      revenueField |-> ColR, costField |-> ColC] : f \in {<<>>, ColR}}

\* the rows of one group: revenue and cost per row
GroupRows == UNION {[1..k -> [r : 0..MaxAmount, c : 0..MaxAmount]] : k \in 1..MaxGroupRows}

RECURSIVE SumCol(_, _)
SumCol(rows, col) ==
    IF rows = <<>> THEN 0
    ELSE (IF col = ColR THEN Head(rows).r ELSE Head(rows).c) + SumCol(Tail(rows), col)

\* n / d rounded to the nearest integer, halves away from zero (d > 0)
RoundDiv(n, d) ==
    IF n >= 0 THEN (2 * n + d) \div (2 * d) ELSE 0 - ((2 * (0 - n) + d) \div (2 * d))

NoCell == [kind |-> "absent", v |-> 0]
Cell(v) == [kind |-> "value", v |-> v]

\* what the database computes for one select part over the rows of a group
EvalPart(part, rows) ==
    IF part.fn = "MARGIN"
       THEN \* CASE WHEN SUM(rev) = 0 THEN 0 ELSE ROUND(... * 100.0 / SUM(rev), 2) END
            LET rev == SumCol(rows, Unquoted(part.arg))
                cost == SumCol(rows, Unquoted(part.arg2))
            IN  IF rev = 0 THEN Cell(0)
                ELSE Cell(RoundDiv((rev - cost) * 10000, rev))
    ELSE IF part.fn = "COUNT" THEN Cell(Len(rows))
    ELSE Cell(100 * SumCol(rows, Unquoted(part.arg)))

\* the cell of metric m in the grouped result of each path
MetricCell(path, m, is_mssql, rows) ==
    LET parts == IF path = "pivot"
                    THEN PivotMetricSelect(m, is_mssql)
                    ELSE LET q == SplitQuery(<<ColA>>, <<ColP>>, <<m>>, <<>>, is_mssql)
                         IN  SubSeq(q.select, 3, Len(q.select))
    IN  IF parts = <<>> THEN NoCell ELSE EvalPart(parts[1], rows)

MetricRequests ==
    [shape : {"metric"}, path : {"pivot", "split"}, db_type : Dialects,
     metric : MarginMetrics, rows : GroupRows]

EvaluateMetric ==
    /\ req = NoReq
    /\ \E r \in MetricRequests :
          /\ req' = r
          /\ res' = [status |-> "ok", query |-> NoQuery,
                     cell |-> MetricCell(r.path, r.metric, r.db_type = "mssql", r.rows)]
    /\ UNCHANGED <<poolVars, pivotVars, runVars>>

MetricReturn ==
    /\ req # NoReq
    /\ req' = NoReq
    /\ res' = NoRes
    /\ UNCHANGED <<poolVars, pivotVars, runVars>>

NextMetric ==
    \/ EvaluateMetric
    \/ MetricReturn

SpecMetric == Init /\ [][NextMetric]_vars

\* C21: a margin metric is 0 for every group whose summed revenue is 0 and
\* (SUM(revenue) - SUM(cost)) * 100 / SUM(revenue) otherwise, in the grouped
\* aggregation and in the split pivot alike; never an error or a missing value.
C21_MarginValue ==
    req # NoReq =>
       LET rev == SumCol(req.rows, ColR)
           cost == SumCol(req.rows, ColC)
       IN  res.cell = IF rev = 0 THEN Cell(0)
                      ELSE Cell(RoundDiv((rev - cost) * 10000, rev))

(***************************************************************************)
(* Where the engine's relational I/O runs: on a worker of _executor or in   *)
(* the coroutine itself, which then holds the event loop until it returns.  *)
(***************************************************************************)
EngineFns ==
    {"execute_query", "execute_pivot", "execute_grid_query", "execute_pivot_drill",
     "get_column_values", "execute_pivot_with_split"}

\* the functions that hand their statement to loop.run_in_executor(_executor, ...)
Dispatches(fn) == fn \in {"execute_query", "execute_pivot"}

RunningJobs == {c \in Coroutines : tasks[c].pc = "running"}

\* a coroutine enters an engine function: it submits its job and awaits it, or
\* calls get_engine / engine.connect / read_database / cx.read_sql itself
EngineCall(c) ==
    /\ loop = 0
    /\ tasks[c].pc = "idle"
    /\ \E fn \in EngineFns :
          IF Dispatches(fn)
             THEN /\ tasks' = [tasks EXCEPT ![c] = [pc |-> "queued", fn |-> fn]]
                  /\ loop' = loop
             ELSE /\ tasks' = [tasks EXCEPT ![c] = [pc |-> "blocking", fn |-> fn]]
                  /\ loop' = c
    /\ UNCHANGED <<poolVars, queryVars, pivotVars, warmed, warmOk, reported>>

\* a free worker of the pool takes a submitted job
WorkerStart(c) ==
    /\ tasks[c].pc = "queued"
    /\ Cardinality(RunningJobs) < MAX_WORKERS
    /\ tasks' = [tasks EXCEPT ![c].pc = "running"]
    /\ UNCHANGED <<poolVars, queryVars, pivotVars, warmed, warmOk, reported, loop>>

\* the worker finishes the statement; the future is done
WorkerFinish(c) ==
    /\ tasks[c].pc = "running"
    /\ tasks' = [tasks EXCEPT ![c].pc = "ready"]
    /\ UNCHANGED <<poolVars, queryVars, pivotVars, warmed, warmOk, reported, loop>>

\* the event loop resumes the coroutine, which serializes and returns
Resume(c) ==
    /\ loop = 0
    /\ tasks[c].pc = "ready"
    /\ tasks' = [tasks EXCEPT ![c] = IdleTask]
    /\ UNCHANGED <<poolVars, queryVars, pivotVars, warmed, warmOk, reported, loop>>

\* the blocking call made in the coroutine returns and frees the event loop
BlockingReturn(c) ==
    /\ loop = c
    /\ tasks[c].pc = "blocking"
    /\ tasks' = [tasks EXCEPT ![c] = IdleTask]
    /\ loop' = 0
    /\ UNCHANGED <<poolVars, queryVars, pivotVars, warmed, warmOk, reported>>

NextLoop ==
    \/ \E c \in Coroutines : EngineCall(c)
    \/ \E c \in Coroutines : WorkerStart(c)
    \/ \E c \in Coroutines : WorkerFinish(c)
    \/ \E c \in Coroutines : Resume(c)
    \/ \E c \in Coroutines : BlockingReturn(c)

SpecLoop == Init /\ [][NextLoop]_vars

\* C22: every relational query runs on the worker pool and never in the
\* coroutine on the event loop, and at most 4 engine queries run at once.
C22_QueriesOnWorkerPool ==
    /\ loop = 0
    /\ \A c \in Coroutines : tasks[c].pc # "blocking"
    /\ Cardinality(RunningJobs) <= MAX_WORKERS

(***************************************************************************)
(* connections.test_new_connection / test_connection: the handler awaits    *)
(* the job on _test_executor under asyncio.wait_for(..., timeout=180.0).    *)
(***************************************************************************)
TestOp == "_test_connection_sync"

\* the job's thread is inside _test_connection_sync
InTest(t) == op[t] = TestOp /\ pc[t] \in {"ge_check", "ge_create", "use"}

\* asyncio.TimeoutError: the handler answers 408 / "Timeout: ..."; the await
\* is cancelled, the thread that runs the job is not
TestTimeout(t) ==
    /\ InTest(t)
    /\ reported[t] = "none"
    /\ reported' = [reported EXCEPT ![t] = "timeout"]
    /\ UNCHANGED <<poolVars, queryVars, pivotVars, warmed, warmOk, loop, tasks>>

\* the job ended in time: success, or the formatted error (400 / success False)
TestAnswer(t) ==
    /\ pc[t] = "done"
    /\ reported[t] = "none"
    /\ reported' = [reported EXCEPT ![t] = IF ret[t].kind = "ok" THEN "success"
                                                                ELSE "failure"]
    /\ UNCHANGED <<poolVars, queryVars, pivotVars, warmed, warmOk, loop, tasks>>

\* the job's thread returns to the executor
TestEnd(t) ==
    /\ pc[t] = "done"
    /\ reported[t] # "none"
    /\ pc' = [pc EXCEPT ![t] = "idle"]
    /\ op' = [op EXCEPT ![t] = "none"]
    /\ arg' = [arg EXCEPT ![t] = NoArg]
    /\ loc' = [loc EXCEPT ![t] = 0]
    /\ ret' = [ret EXCEPT ![t] = NoRet]
    /\ reported' = [reported EXCEPT ![t] = "none"]
    /\ UNCHANGED <<made, engines, pools, pools_lock, stored, warmTasks, traffic,
                   ncalls, probeFails, stale>>
    /\ UNCHANGED <<queryVars, pivotVars, warmed, warmOk, loop, tasks>>

NextTest ==
    \/ \E t \in Threads : StartEngineCall(t)
    \/ \E t \in Threads : GE_Check(t)
    \/ \E t \in Threads : GE_Create(t)
    \/ \E t \in Threads : Use(t)
    \/ \E t \in Threads : TestTimeout(t)
    \/ \E t \in Threads : TestAnswer(t)
    \/ \E t \in Threads : TestEnd(t)

SpecTest == Init /\ [][NextTest]_vars

C23_Step(t) ==
    \* the timeout disposes and removes nothing
    /\ (reported[t] # "timeout" /\ reported'[t] = "timeout") =>
          made' = made /\ engines' = engines
    \* once the timeout is reported the job takes no further step
    /\ (reported[t] = "timeout" /\ InTest(t)) => pc'[t] = pc[t]

\* C23: a connection test that exceeds its timeout is cancelled and reported
\* as a timeout, an outcome of its own; the timeout removes or disposes no
\* pool, and the timed-out job performs no registry or connection action
\* after the timeout is reported.
C23_TimeoutCancelsTest == [][\A t \in Threads : C23_Step(t)]_vars

\* the engine_pool entries for the descriptor d
EntriesFor(d) == {k \in DOMAIN engines : made[engines[k]].cfg = d}

\* C29: a connection test that fails leaves the registry unchanged: once the
\* failure is reported engine_pool holds no entry that was added for the
\* tested descriptor (every entry for it has served a statement or is held
\* by another running call).
C29_FailedTestLeavesNoEntry ==
    \A t \in Threads :
       (op[t] = TestOp /\ reported[t] = "failure") =>
          \A k \in EntriesFor(arg[t]) :
             \/ \E q \in traffic : q.eng = engines[k]
             \/ \E u \in Threads \ {t} : HoldsEngine(u) /\ HeldEngine(u) = engines[k]

\* C24: when an explicit warm-up of a descriptor completes successfully the
\* registry the query engine uses holds a pool for the descriptor's key, so
\* the first query after it reuses a pool and creates none.
C24_WarmUpRegistersPool ==
    [][\A d \in warmOk' \ warmOk : EngineKey(d) \in DOMAIN engines']_vars

(***************************************************************************)
(* QueryEngine.ensure_pool_warm, engine_pool.get_engine and                 *)
(* engine_pool.close_all_pools called one after the other.                  *)
(***************************************************************************)
\* ensure_pool_warm: the key of _warmed_connections
WarmKey(d) == d.db_type \o "://" \o d.host \o ":" \o d.port \o "/" \o d.database

\* get_engine as one step: the registered engine, or a new one registered
EnginesAfterGet(d) ==
    IF EngineKey(d) \in DOMAIN engines THEN engines
    ELSE Put(engines, EngineKey(d), Len(made) + 1)

MadeAfterGet(d) ==
    IF EngineKey(d) \in DOMAIN engines THEN made
    ELSE Append(made, NewEngine(d, "engine_pool", EngineUrl(d.db_type)))

\* ensure_pool_warm(conn_type, config), lines 219-229
EnsurePoolWarm(t) ==
    /\ pc[t] = "idle"
    /\ ncalls < MaxCalls
    /\ ncalls' = ncalls + 1
    /\ \E d \in Descriptors, ok \in BOOLEAN :
          /\ arg' = [arg EXCEPT ![t] = d]
          /\ op' = [op EXCEPT ![t] = "ensure_pool_warm"]
          /\ IF WarmKey(d) \in warmed
                THEN /\ ret' = [ret EXCEPT ![t] = R("skipped", 0)]
                     /\ UNCHANGED <<made, engines, traffic, warmed>>
             ELSE IF EngineUrl(d.db_type) = "ValueError"
                       /\ EngineKey(d) \notin DOMAIN engines
                THEN /\ ret' = [ret EXCEPT ![t] = R("failed", 0)]
                     /\ UNCHANGED <<made, engines, traffic, warmed>>
             ELSE /\ made' = MadeAfterGet(d)
                  /\ engines' = EnginesAfterGet(d)
                  /\ IF ok
                        THEN /\ traffic' = traffic \cup
                                    {[d |-> d, eng |-> EnginesAfterGet(d)[EngineKey(d)]]}
                             /\ warmed' = warmed \cup {WarmKey(d)}
                             /\ ret' = [ret EXCEPT ![t] =
                                           R("warmed", EnginesAfterGet(d)[EngineKey(d)])]
                        ELSE /\ ret' = [ret EXCEPT ![t] = R("failed", 0)]
                             /\ UNCHANGED <<traffic, warmed>>
    /\ UNCHANGED <<pools, pools_lock, stored, warmTasks, pc, loc, probeFails, stale>>
    /\ UNCHANGED <<queryVars, pivotVars, warmOk, reported, loop, tasks>>

\* get_engine(db_type, config) called on its own
GetEngine(t) ==
    /\ pc[t] = "idle"
    /\ ncalls < MaxCalls
    /\ ncalls' = ncalls + 1
    /\ \E d \in Descriptors :
          /\ arg' = [arg EXCEPT ![t] = d]
          /\ op' = [op EXCEPT ![t] = "get_engine"]
          /\ IF EngineUrl(d.db_type) = "ValueError" /\ EngineKey(d) \notin DOMAIN engines
                THEN /\ ret' = [ret EXCEPT ![t] = R("ValueError", 0)]
                     /\ UNCHANGED <<made, engines>>
                ELSE /\ made' = MadeAfterGet(d)
                     /\ engines' = EnginesAfterGet(d)
                     /\ ret' = [ret EXCEPT ![t] = R("engine", EnginesAfterGet(d)[EngineKey(d)])]
    /\ UNCHANGED <<pools, pools_lock, stored, warmTasks, traffic, pc, loc,
                   probeFails, stale>>
    /\ UNCHANGED <<queryVars, pivotVars, runVars>>

\* close_all_pools(): dispose every engine, clear _engines
CloseAllPools(t) ==
    /\ pc[t] = "idle"
    /\ ncalls < MaxCalls
    /\ ncalls' = ncalls + 1
    /\ arg' = [arg EXCEPT ![t] = NoArg]
    /\ op' = [op EXCEPT ![t] = "close_all_pools"]
    /\ ret' = [ret EXCEPT ![t] = NoRet]
    /\ made' = [i \in 1..Len(made) |->
                   IF \E k \in DOMAIN engines : engines[k] = i
                      THEN [made[i] EXCEPT !.disposed = TRUE] ELSE made[i]]
    /\ engines' = <<>>
    /\ UNCHANGED <<pools, pools_lock, stored, warmTasks, traffic, pc, loc,
                   probeFails, stale>>
    /\ UNCHANGED <<queryVars, pivotVars, runVars>>

NextWarmed ==
    \/ \E t \in Threads : EnsurePoolWarm(t)
    \/ \E t \in Threads : GetEngine(t)
    \/ \E t \in Threads : CloseAllPools(t)

SpecWarmed == Init /\ [][NextWarmed]_vars

\* C30: whenever ensure_pool_warm treats a descriptor as already warmed the
\* registry holds a pool for exactly that descriptor (same username and
\* password) on which a SELECT 1 probe has succeeded since it was created;
\* a failed probe never marks a key as warmed.
C30_WarmedMeansLivePool ==
    /\ \A t \in Threads :
          (op[t] = "ensure_pool_warm" /\ ret[t].kind = "skipped") =>
             \E k \in EntriesFor(arg[t]) :
                /\ ~made[engines[k]].disposed
                /\ \E q \in traffic : q.eng = engines[k]
    /\ \A k \in warmed : \E q \in traffic : WarmKey(q.d) = k

(***************************************************************************)
(* The ORDER BY of a drill-down level.                                      *)
(***************************************************************************)
\* the columns of the grouped output: key_val, the split columns, the values
OutputCols(b) ==
    {KeyVal} \cup Range(b.pivotCols) \cup {b.valueCols[i].colId : i \in 1..Len(b.valueCols)}

\* the dimension grouped at the level of the request
CurrentDim(b) == b.rowGroupCols[Len(b.groupKeys) + 1]

\* the sort entries whose column, cleaned, is in the output under some name
SortableEntries(r) ==
    SelectSeq(r.sortModel,
              LAMBDA x : CleanCol(x.colId) \in OutputCols(r.base) \cup {CurrentDim(r.base)})

IsLevelRequest ==
    /\ req # NoReq
    /\ req.shape = "drill"
    /\ Len(req.base.rowGroupCols) >= 1
    /\ res.status = "rows"

C26_FlatPassthrough ==
    (/\ req # NoReq
     /\ req.shape = "pivot"
     /\ req.group_by = <<>>
     /\ req.metrics = <<>>) =>
        /\ res.status = "ok"
        /\ res.query.nums = <<Num(IF req.db_type = "mssql" THEN "TOP" ELSE "LIMIT",
                                  IF req.limit = PyNone THEN 10000 ELSE req.limit.v)>>

(***************************************************************************)
(* Paging through one drill-down node: the client asks for the pages        *)
(* [0,p), [p,2p), ... of the same request; the database answers each        *)
(* statement with the rows in some order that agrees with its ORDER BY.     *)
(***************************************************************************)
MaxPageRows == 2

\* a row of the statement's result: the key, the split value, the measure
ResultRows == [key_val : 1..2, p : 1..2, m : 1..2]

PageBases ==
    {b \in DrillBases : /\ b.rowGroupCols \in {<<>>, <<ColA>>}
                        /\ b.filterModel = <<>>
                        /\ Len(b.valueCols) = 1 /\ b.valueCols[1].aggFunc = "sum"}

\* sort models over columns the base query has
PageSorts == {x \in SortChoices : \A i \in 1..Len(x) : CleanCol(x[i].colId) = x[i].colId}

\* GROUP BY gives one row per key, or per key and split value
ResultsOf(b) ==
    {rows \in SeqsUpTo(ResultRows, MaxPageRows) :
        \A i, j \in 1..Len(rows) :
           i # j =>
              IF Len(b.rowGroupCols) = 0 THEN TRUE
              ELSE IF b.pivotCols = <<>>
                 THEN rows[i].key_val # rows[j].key_val /\ rows[i].p = 1 /\ rows[j].p = 1
              ELSE <<rows[i].key_val, rows[i].p>> # <<rows[j].key_val, rows[j].p>>}

\* the value of an ORDER BY term in a row; (SELECT NULL) is the same everywhere
TermValue(row, col) ==
    CASE col = KeyVal \/ col = ColA -> row.key_val
      [] col = <<"p">> -> row.p
      [] col = <<"m">> -> row.m
      [] OTHER -> 0

\* x sorts strictly before y under the ORDER BY terms
RECURSIVE SortsBefore(_, _, _)
SortsBefore(x, y, order_by) ==
    IF order_by = <<>> THEN FALSE
    ELSE LET vx == TermValue(x, Head(order_by).col)
             vy == TermValue(y, Head(order_by).col)
         IN  IF vx = vy THEN SortsBefore(x, y, Tail(order_by))
             ELSE IF Head(order_by).dir = "DESC" THEN vx > vy ELSE vx < vy

\* the orders in which the database may return the rows
RowOrders(rows, order_by) ==
    {f \in [1..Len(rows) -> 1..Len(rows)] :
        /\ \A i, j \in 1..Len(rows) : i # j => f[i] # f[j]
        /\ \A i, j \in 1..Len(rows) :
              i < j => ~SortsBefore(rows[f[j]], rows[f[i]], order_by)}

NumOf(nums, kw) == nums[CHOOSE i \in 1..Len(nums) : nums[i].kw = kw].n

\* OFFSET / LIMIT (FETCH NEXT) applied to the ordered rows
PageOf(rows, f, nums) ==
    LET offset == NumOf(nums, "OFFSET")
        limit == IF \E i \in 1..Len(nums) : nums[i].kw = "LIMIT"
                    THEN NumOf(nums, "LIMIT") ELSE NumOf(nums, "FETCH NEXT")
        last == IF offset + limit < Len(rows) THEN offset + limit ELSE Len(rows)
    IN  [i \in 1..(IF last > offset THEN last - offset ELSE 0) |-> rows[f[offset + i]]]

\* the client opens a node: the request, the page size, the data behind it
OpenNode ==
    /\ req = NoReq
    /\ \E b \in PageBases, x \in PageSorts, size \in 1..MaxPageRows :
          \E rows \in ResultsOf(b) :
             /\ req' = [shape |-> "paging", base |-> b, sortModel |-> x,
                        size |-> size, rows |-> rows]
             /\ res' = [status |-> "paging", query |-> NoQuery, pages |-> <<>>]
    /\ UNCHANGED <<poolVars, pivotVars, runVars>>

\* execute_pivot_drill for the next page of the node
FetchPage ==
    /\ req # NoReq
    /\ req.shape = "paging"
    /\ Len(res.pages) * req.size < Len(req.rows)
    /\ LET k == Len(res.pages)
           out == DrillPage([shape |-> "drill", base |-> req.base,
                             sortModel |-> req.sortModel, havingModel |-> <<>>,
                             startRow |-> PyInt(k * req.size),
                             endRow |-> PyInt((k + 1) * req.size)])
       IN  \E f \in RowOrders(req.rows, out.query.order_by) :
              res' = [status |-> "paging", query |-> out.query,
                      pages |-> Append(res.pages, PageOf(req.rows, f, out.query.nums))]
    /\ UNCHANGED <<req, poolVars, pivotVars, runVars>>

CloseNode ==
    /\ req # NoReq
    /\ req.shape = "paging"
    /\ req' = NoReq
    /\ res' = NoRes
    /\ UNCHANGED <<poolVars, pivotVars, runVars>>

NextPage ==
    \/ OpenNode
    \/ FetchPage
    \/ CloseNode

SpecPage == Init /\ [][NextPage]_vars

\* how often the row v was returned in the pages
RECURSIVE Returned(_, _)
Returned(pages, v) ==
    IF pages = <<>> THEN 0
    ELSE Cardinality({i \in 1..Len(Head(pages)) : Head(pages)[i] = v})
         + Returned(Tail(pages), v)

\* C27: for a fixed drill-down node (or flat mode) and unchanged data, the
\* consecutive pages [0,p), [p,2p), ... hold at most p rows each and together
\* contain every result row exactly once.
C27_PagesPartitionRows ==
    (/\ req # NoReq
     /\ req.shape = "paging"
     /\ Len(res.pages) * req.size >= Len(req.rows)) =>
        /\ \A i \in 1..Len(res.pages) : Len(res.pages[i]) <= req.size
        /\ \A v \in ResultRows :
              Returned(res.pages, v) = Cardinality({i \in 1..Len(req.rows) : req.rows[i] = v})

(***************************************************************************)
(* Which requests share an entry of the result cache.                       *)
(***************************************************************************)
\* lines 119-125: the metrics and row-group dimensions the query is built from
EffectiveMetrics(r, report) ==
    IF r.metrics = <<>> /\ report.default_metrics # <<>>
       THEN report.default_metrics ELSE r.metrics

EffectiveGroupBy(r, report) ==
    IF r.group_by # <<>> THEN r.group_by ELSE report.default_group_by

\* requests to report 1 with and without a row-count cap, with and without
\* column-split dimensions
CappedRequests ==
    {[PivotRequest("pivot", 1, <<ColA>>, sb, <<SumM>>, FALSE) EXCEPT !.limit = l] :
        sb \in {<<>>, <<ColP>>}, l \in {PyNone, PyInt(1)}}

\* a request arrives: lines 73-93, the report exists
P_StartCapped(h) ==
    /\ hs[h].pc = "idle"
    /\ \E r \in CappedRequests :
          hs' = [hs EXCEPT ![h] =
                   [IdleHandler EXCEPT
                       !.pc = "check", !.req = r,
                       !.config_hash = hash_config(ConfigOf(r, ReportTable[r.report_id]))]]
    /\ UNCHANGED <<cache, dbver, poolVars, queryVars, runVars>>

NextCapped ==
    \/ \E h \in Handlers : P_StartCapped(h)
    \/ \E h \in Handlers : P_CheckCache(h)
    \/ \E h \in Handlers : P_Execute(h)
    \/ \E h \in Handlers : P_Store(h)
    \/ \E h \in Handlers : P_Finish(h)
    \/ CacheExpire
    \/ DataChange

SpecCapped == Init /\ [][NextCapped]_vars

\* handler w has stored its payload and handler h was served from the cache
\* under the same key
ServedFrom(h, w) ==
    /\ h # w
    /\ Serving(h) /\ hs[h].req.endpoint = "pivot" /\ hs[h].cache_hit
    /\ Serving(w) /\ hs[w].req.endpoint = "pivot" /\ hs[w].writes = 1
    /\ CacheKey(h) = CacheKey(w)
    /\ hs[h].arrow_bytes = hs[w].arrow_bytes

\* C28: a payload served from the cache was stored by a request with the same
\* result-determining parameters: requests to the same report that differ in
\* the row-count cap, or in the effective row-group dimensions or metrics,
\* never share a cache entry.
C28_CacheEntryNotShared ==
    \A h, w \in Handlers :
       ServedFrom(h, w) =>
          /\ hs[h].req.limit = hs[w].req.limit
          /\ EffectiveGroupBy(hs[h].req, ReportOf(h)) = EffectiveGroupBy(hs[w].req, ReportOf(w))
          /\ EffectiveMetrics(hs[h].req, ReportOf(h)) = EffectiveMetrics(hs[w].req, ReportOf(w))

====
